---- MODULE Spec2Model ----
(***************************************************************************)
(* The STAF unmarshaller of src/STAF/_marshall.py as a state machine.      *)
(*                                                                         *)
(* A Python str is a sequence of one-character strings.  A Python value is *)
(* a record tagged with its type (PyNone, PyStr, PyList, PyDict, a         *)
(* MapClass instance).  A call either returns (Return, Return2 for the     *)
(* (obj, rest) tuples of the sub-parsers) or raises (Raise, with the       *)
(* exception class and its message).                                       *)
(***************************************************************************)
EXTENDS Integers, Sequences, FiniteSets, TLC

VARIABLES data, mode, shape, result, forced,
          mapdef, instance, bound, order, ret, iterator,
          calls, stack,
          handle, server, block, lastop

\* one call of unmarshall and of unmarshall_force on one input
callVars == <<data, mode, shape, result, forced>>

\* a MapClassDefinition, a MapClass made from it, the last operation on them
\* and an iterator over the MapClass
mapClassVars == <<mapdef, instance, bound, order, ret, iterator>>

\* a Handle, the STAF server it talks to, the with block of the program and
\* the last operation on the Handle
handleVars == <<handle, server, block, lastop>>

vars == <<callVars, mapClassVars, calls, stack, handleVars>>

RECURSIVE unmarshall(_, _), unmarshall_force(_, _), unmarshall_internal(_, _, _)
RECURSIVE ScalarUnmarshaller_unmarshall(_, _, _), MapUnmarshaller_unmarshall(_, _, _)
RECURSIVE ListUnmarshaller_unmarshall(_, _, _), MapClassUnmarshaller_unmarshall(_, _, _)
RECURSIVE ContextUnmarshaller_unmarshall(_, _, _)
RECURSIVE MapUnmarshaller_loop(_, _, _, _), ListUnmarshaller_loop(_, _, _, _, _)
RECURSIVE MapClassUnmarshaller_loop(_, _, _, _, _)
RECURSIVE ContextUnmarshaller_classes(_, _, _)

(***************************************************************************)
(* Python values, results and exceptions                                   *)
(***************************************************************************)
PyNone == [t |-> "None", v |-> <<>>]

PyStr(s) == [t |-> "str", v |-> s]

PyList(l) == [t |-> "list", v |-> l]

PyDict(m) == [t |-> "dict", v |-> m]

EmptyDict == [k \in {} |-> PyNone]

Return(v) == [ok |-> TRUE, val |-> v]

Return2(obj, rest) == [ok |-> TRUE, obj |-> obj, rest |-> rest]

Raise(exc, msg) == [ok |-> FALSE, exc |-> exc, msg |-> msg]

\* name = value, then the statements after the assignment
Bind(value, rest(_)) == rest(value)

STAFUnmarshallError == "STAFUnmarshallError"

UNMARSHALL_RECURSIVE == "UNMARSHALL_RECURSIVE"

UNMARSHALL_NON_RECURSIVE == "UNMARSHALL_NON_RECURSIVE"

UNMARSHALL_NONE == "UNMARSHALL_NONE"

marker == <<"@", "S", "D", "T", "/">>

\* startswith that leaves the last character of the prefix uncompared
startswith_all_but_last(s, prefix) ==
    /\ Len(s) >= Len(prefix)
    /\ SubSeq(s, 1, Len(prefix) - 1) = SubSeq(prefix, 1, Len(prefix) - 1)

\* str.startswith
startswith(s, prefix) ==
    /\ Len(s) >= Len(prefix)
    /\ SubSeq(s, 1, Len(prefix)) = prefix

\* s[i:] with a 0-based index i <= len(s)
SliceFrom(s, i) == SubSeq(s, i + 1, Len(s))

\* the characters the pattern \d matches in a Python 2 str pattern
Digits == <<"0", "1", "2", "3", "4", "5", "6", "7", "8", "9">>

isdigit(c) == \E i \in 1..10 : Digits[i] = c

DigitVal(c) == (CHOOSE i \in 1..10 : Digits[i] = c) - 1

\* int() of a non-empty string of decimal digits
RECURSIVE int(_)
int(s) ==
    IF s = <<>> THEN 0
    ELSE int(SubSeq(s, 1, Len(s) - 1)) * 10 + DigitVal(s[Len(s)])

\* the longest prefix of s made of digits: what a greedy \d+ or \d* takes
RECURSIVE DigitRun(_)
DigitRun(s) ==
    IF s # <<>> /\ isdigit(s[1]) THEN <<s[1]>> \o DigitRun(Tail(s)) ELSE <<>>

(***************************************************************************)
(* Unmarshaller.read_clc_obj and its pattern                               *)
(***************************************************************************)
\* ^:(?P<len>\d+):(?P<rest>.*)$ with re.DOTALL
clc_matcher(s) ==
    IF s # <<>> /\ s[1] = ":"
    THEN LET len == DigitRun(Tail(s))
             after == SliceFrom(s, 1 + Len(len))
         IN  IF len # <<>> /\ after # <<>> /\ after[1] = ":"
             THEN [matched |-> TRUE, len |-> len, rest |-> Tail(after)]
             ELSE [matched |-> FALSE, len |-> <<>>, rest |-> <<>>]
    ELSE [matched |-> FALSE, len |-> <<>>, rest |-> <<>>]

\* read_clc_obj that hands out the characters there are when the stated
\* length exceeds them
read_clc_obj_available(s) ==
    Bind(clc_matcher(s), LAMBDA m :
    IF ~m.matched
    THEN Raise(STAFUnmarshallError, "bad format for colon-length-colon object")
    ELSE Bind(int(m.len), LAMBDA length :
         IF length > Len(m.rest)
         THEN Return2(m.rest, <<>>)
         ELSE Return2(SubSeq(m.rest, 1, length), SliceFrom(m.rest, length))))

\* read_clc_obj that reads an object of length 0 without moving on: what is
\* left is the data it was given
read_clc_obj_in_place(s) ==
    Bind(clc_matcher(s), LAMBDA m :
    IF ~m.matched
    THEN Raise(STAFUnmarshallError, "bad format for colon-length-colon object")
    ELSE Bind(int(m.len), LAMBDA length :
         IF length > Len(m.rest)
         THEN Raise(STAFUnmarshallError, "specified length exceeds available data")
         ELSE IF length = 0 THEN Return2(<<>>, s)
         ELSE Return2(SubSeq(m.rest, 1, length), SliceFrom(m.rest, length))))

\* read_clc_obj that tells a colon-length-colon header that ends before its
\* second colon from one that is malformed
read_clc_obj_incomplete(s) ==
    Bind(clc_matcher(s), LAMBDA m :
    IF ~m.matched
    THEN IF s # <<>> /\ s[1] = ":" /\ DigitRun(Tail(s)) = Tail(s)
         THEN Raise(STAFUnmarshallError, "incomplete marshalled data")
         ELSE Raise(STAFUnmarshallError,
                    "bad format for colon-length-colon object")
    ELSE Bind(int(m.len), LAMBDA length :
         IF length > Len(m.rest)
         THEN Raise(STAFUnmarshallError, "specified length exceeds available data")
         ELSE Return2(SubSeq(m.rest, 1, length), SliceFrom(m.rest, length))))

\* Unmarshaller.read_clc_obj
read_clc_obj(s) ==
    Bind(clc_matcher(s), LAMBDA m :
    IF ~m.matched
    THEN Raise(STAFUnmarshallError, "bad format for colon-length-colon object")
    ELSE Bind(int(m.len), LAMBDA length :
         IF length > Len(m.rest)
         THEN Raise(STAFUnmarshallError, "specified length exceeds available data")
         ELSE Return2(SubSeq(m.rest, 1, length), SliceFrom(m.rest, length))))

(***************************************************************************)
(* MapClassDefinition and MapClass                                         *)
(***************************************************************************)
\* MapClassDefinition.__init__
MapClassDefinition(name) == [name |-> name, keys |-> <<>>, names |-> EmptyDict]

\* list and dict (MapClass is a dict too) are unhashable
hashable(x) == x.t \in {"None", "str"}

\* d[key] = value on a dict held as a function
setitem(d, key, value) ==
    [k \in DOMAIN d \cup {key} |-> IF k = key THEN value ELSE d[k]]

\* some enumeration of a finite set: the order in which a dict is iterated
RECURSIVE SeqOf(_)
SeqOf(S) ==
    IF S = {} THEN <<>>
    ELSE LET x == CHOOSE y \in S : TRUE IN <<x>> \o SeqOf(S \ {x})

\* MapClassDefinition.add_item: the key is appended, then the dict store
\* raises TypeError for an unhashable key
add_item(defn, key, display_name, display_short_name) ==
    IF ~hashable(key)
    THEN Raise("TypeError", "unhashable type")
    ELSE Return([name |-> defn.name,
                 keys |-> Append(defn.keys, key),
                 names |-> setitem(defn.names, key,
                                   <<display_name, display_short_name>>)])

\* dict.__setitem__ in the place of MapClass.__setitem__: no check of the key
MapClass_setitem_any(self, key, value) ==
    Return([self EXCEPT !.v = setitem(self.v, key, value)])

\* MapClass.__setitem__
MapClass_setitem(self, key, value) ==
    IF key \in DOMAIN self.names
    THEN Return([self EXCEPT !.v = setitem(self.v, key, value)])
    ELSE Raise("KeyError", "key")

\* MapClass.__init__: every key of the definition starts at None
MapClass_init(class_name, keys, disp_names) ==
    [t |-> "MapClass",
     v |-> [k \in {keys[i] : i \in 1..Len(keys)} |-> PyNone],
     class_name |-> class_name, keys |-> keys, names |-> disp_names]

\* MapClass.update: after the key check the method calls self.update, which
\* is MapClass.update again (not dict.update), so the call never returns and
\* the interpreter ends the recursion with RuntimeError.
MapClass_update(self, as_dict) ==
    IF \E key \in DOMAIN as_dict : key \notin DOMAIN self.v
    THEN Raise("KeyError", "key")
    ELSE Raise("RuntimeError", "maximum recursion depth exceeded")

\* MapClassDefinition.map_class
map_class(defn, as_dict) ==
    LET cls == MapClass_init(defn.name, defn.keys, defn.names)
        upd == MapClass_update(cls, as_dict)
    IN  IF upd.ok THEN Return(upd.val) ELSE upd

\* MapClassDefinition.display_name
MapClassDefinition_display_name(defn, key) ==
    IF key \in DOMAIN defn.names THEN Return(defn.names[key][1])
    ELSE Raise("KeyError", "key")

\* MapClassDefinition.display_short_name
MapClassDefinition_display_short_name(defn, key) ==
    IF key \in DOMAIN defn.names THEN Return(defn.names[key][2])
    ELSE Raise("KeyError", "key")

\* MapClass.display_name
MapClass_display_name(self, key) ==
    IF key \in DOMAIN self.names THEN Return(self.names[key][1])
    ELSE Raise("KeyError", "key")

\* MapClass.display_short_name that reads the display name
MapClass_display_short_name_long(self, key) ==
    IF key \in DOMAIN self.names THEN Return(self.names[key][1])
    ELSE Raise("KeyError", "key")

\* MapClass.display_short_name
MapClass_display_short_name(self, key) ==
    IF key \in DOMAIN self.names THEN Return(self.names[key][2])
    ELSE Raise("KeyError", "key")

\* MapClass.definition: a new MapClassDefinition, one add_item per key
RECURSIVE MapClass_definition_loop(_, _, _)
MapClass_definition_loop(self, definition, keys) ==
    IF keys = <<>> THEN Return(definition)
    ELSE IF Head(keys) \notin DOMAIN self.names THEN Raise("KeyError", "key")
    ELSE Bind(add_item(definition, Head(keys), self.names[Head(keys)][1],
                       self.names[Head(keys)][2]),
              LAMBDA a :
         IF ~a.ok THEN a ELSE MapClass_definition_loop(self, a.val, Tail(keys)))

MapClass_definition(self) ==
    MapClass_definition_loop(self, MapClassDefinition(self.class_name), self.keys)

\* MapClass.__delitem__
MapClass_delitem(self, key) ==
    Raise("NotImplementedError", "item deletion is not supported in MapClass")

\* MapClass.clear
MapClass_clear(self) ==
    Raise("NotImplementedError", "clear() is not supported in MapClass")

\* MapClass.pop
MapClass_pop(self, key, default) ==
    Raise("NotImplementedError", "pop() is not supported in MapClass")

\* MapClass.popitem
MapClass_popitem(self) ==
    Raise("NotImplementedError", "popitem() is not supported in MapClass")

\* MapClass.setdefault, called as self.setdefault(*args): the function is
\* declared with the parameters (key, default=None) and no self, so the
\* instance is bound to key; two arguments are one too many, and with fewer
\* the body reads the name self, which is not defined.
MapClass_setdefault(self, args) ==
    IF Len(args) > 1
    THEN Raise("TypeError", "setdefault() takes at most 2 arguments")
    ELSE Raise("NameError", "global name 'self' is not defined")

\* MapClass.iterkeys of an instance whose _keys is the key list of the
\* definition itself, not a copy of it
MapClass_iterkeys_shared(self) == mapdef.keys

\* MapClass.iterkeys (and __iter__): the keys in the order of _keys
MapClass_iterkeys(self) == self.keys

\* MapClass.keys
MapClass_keys(self) == MapClass_iterkeys(self)

\* dict.itervalues in the place of MapClass.itervalues: the values in the
\* order in which the dict is iterated
MapClass_itervalues_dict(self) ==
    [i \in 1..Cardinality(DOMAIN self.v) |-> self.v[SeqOf(DOMAIN self.v)[i]]]

\* MapClass.itervalues
MapClass_itervalues(self) == [i \in DOMAIN self.keys |-> self.v[self.keys[i]]]

\* MapClass.values
MapClass_values(self) == MapClass_itervalues(self)

\* MapClass.iteritems
MapClass_iteritems(self) ==
    [i \in DOMAIN self.keys |-> <<self.keys[i], self.v[self.keys[i]]>>]

\* MapClass.items
MapClass_items(self) == MapClass_iteritems(self)

(***************************************************************************)
(* Dynamic operations of the Python values the context parser touches      *)
(***************************************************************************)
isdict(obj) == obj.t \in {"dict", "MapClass"}

\* obj[key] for a str key
getitem(obj, key) ==
    IF isdict(obj)
    THEN IF key \in DOMAIN obj.v THEN Return(obj.v[key])
         ELSE Raise("KeyError", "key")
    ELSE Raise("TypeError", "indices must be integers")

\* obj.get(key, default)
dict_get(obj, key, default) ==
    IF isdict(obj)
    THEN Return(IF key \in DOMAIN obj.v THEN obj.v[key] ELSE default)
    ELSE Raise("AttributeError", "no attribute 'get'")

\* the items a for loop over obj visits
iter(obj) ==
    CASE obj.t = "list" -> Return(obj.v)
      [] obj.t = "str" -> Return([i \in 1..Len(obj.v) |-> PyStr(<<obj.v[i]>>)])
      [] obj.t = "dict" -> Return(SeqOf(DOMAIN obj.v))
      [] obj.t = "MapClass" -> Return(obj.keys)
      [] OTHER -> Raise("TypeError", "object is not iterable")

\* obj.iteritems()
iteritems(obj) ==
    CASE obj.t = "dict" -> Return(SeqOf(DOMAIN obj.v))
      [] obj.t = "MapClass" -> Return(obj.keys)
      [] OTHER -> Raise("AttributeError", "no attribute 'iteritems'")

K_map_class_map ==
    PyStr(<<"m", "a", "p", "-", "c", "l", "a", "s", "s", "-", "m", "a", "p">>)

K_keys == PyStr(<<"k", "e", "y", "s">>)

K_key == PyStr(<<"k", "e", "y">>)

K_display_name ==
    PyStr(<<"d", "i", "s", "p", "l", "a", "y", "-", "n", "a", "m", "e">>)

K_display_short_name ==
    PyStr(<<"d", "i", "s", "p", "l", "a", "y", "-",
            "s", "h", "o", "r", "t", "-", "n", "a", "m", "e">>)

(***************************************************************************)
(* The sub-parsers                                                         *)
(***************************************************************************)
get_unmarshaller(symbol) ==
    CASE symbol = "$" -> "ScalarUnmarshaller"
      [] symbol = "{" -> "MapUnmarshaller"
      [] symbol = "[" -> "ListUnmarshaller"
      [] symbol = "%" -> "MapClassUnmarshaller"
      [] symbol = "*" -> "ContextUnmarshaller"
      [] OTHER -> "None"

\* ScalarUnmarshaller.unmarshall without the check that a None object is empty
ScalarUnmarshaller_unmarshall_any_none(s, m, context) ==
    IF ~startswith(s, <<"0">>) /\ ~startswith(s, <<"S">>)
    THEN Raise(STAFUnmarshallError, "bad format for scalar object")
    ELSE Bind(read_clc_obj(Tail(s)), LAMBDA r :
         IF ~r.ok THEN r
         ELSE IF s[1] = "0" THEN Return2(PyNone, r.rest)
         ELSE IF m = UNMARSHALL_RECURSIVE
         THEN Bind(unmarshall(r.obj, m), LAMBDA u :
              IF u.ok THEN Return2(u.val, r.rest) ELSE u)
         ELSE Return2(PyStr(r.obj), r.rest))

\* ScalarUnmarshaller.unmarshall that unmarshalls the string again with the
\* class definitions of the context it is in
ScalarUnmarshaller_unmarshall_in_context(s, m, context) ==
    IF ~startswith(s, <<"0">>) /\ ~startswith(s, <<"S">>)
    THEN Raise(STAFUnmarshallError, "bad format for scalar object")
    ELSE Bind(read_clc_obj(Tail(s)), LAMBDA r :
         IF ~r.ok THEN r
         ELSE IF s[1] = "0"
         THEN IF r.obj # <<>>
              THEN Raise(STAFUnmarshallError, "bad format for none object")
              ELSE Return2(PyNone, r.rest)
         ELSE IF m = UNMARSHALL_RECURSIVE
         THEN Bind(unmarshall_internal(r.obj, m, context), LAMBDA u :
              IF u.ok
              THEN IF u.rest = <<>> THEN Return2(u.obj, r.rest)
                   ELSE Return2(PyStr(r.obj), r.rest)
              ELSE IF u.exc = STAFUnmarshallError
              THEN Return2(PyStr(r.obj), r.rest)
              ELSE u)
         ELSE Return2(PyStr(r.obj), r.rest))

\* ScalarUnmarshaller.unmarshall
ScalarUnmarshaller_unmarshall(s, m, context) ==
    IF ~startswith(s, <<"0">>) /\ ~startswith(s, <<"S">>)
    THEN Raise(STAFUnmarshallError, "bad format for scalar object")
    ELSE Bind(read_clc_obj(Tail(s)), LAMBDA r :
         IF ~r.ok THEN r
         ELSE IF s[1] = "0"
         THEN IF r.obj # <<>>
              THEN Raise(STAFUnmarshallError, "bad format for none object")
              ELSE Return2(PyNone, r.rest)
         ELSE IF m = UNMARSHALL_RECURSIVE
         THEN Bind(unmarshall(r.obj, m), LAMBDA u :
              IF u.ok THEN Return2(u.val, r.rest) ELSE u)
         ELSE Return2(PyStr(r.obj), r.rest))

\* the while loop of MapUnmarshaller.unmarshall
MapUnmarshaller_loop(items, m, context, res) ==
    IF items = <<>> THEN Return(res)
    ELSE Bind(read_clc_obj(items), LAMBDA key :
         IF ~key.ok THEN key
         ELSE Bind(unmarshall_internal(key.rest, m, context), LAMBDA val :
              IF ~val.ok THEN val
              ELSE MapUnmarshaller_loop(val.rest, m, context,
                                        setitem(res, PyStr(key.obj), val.obj))))

MapUnmarshaller_unmarshall(s, m, context) ==
    Bind(read_clc_obj(s), LAMBDA r :
    IF ~r.ok THEN r
    ELSE Bind(MapUnmarshaller_loop(r.obj, m, context, EmptyDict), LAMBDA l :
         IF ~l.ok THEN l ELSE Return2(PyDict(l.val), r.rest)))

\* ^(?P<count>\d+)(?P<rest>.*)$ with re.DOTALL
count_matcher(s) ==
    LET count == DigitRun(s) IN
    IF count # <<>>
    THEN [matched |-> TRUE, count |-> count, rest |-> SliceFrom(s, Len(count))]
    ELSE [matched |-> FALSE, count |-> <<>>, rest |-> <<>>]

\* the context for the elements that follow the element at the head of
\* items, when a context block that has been unmarshalled leaves its class
\* definitions behind
LeakedContext(items, m, context) ==
    IF ~startswith(items, marker \o <<"*">>) THEN context
    ELSE Bind(read_clc_obj(SliceFrom(items, Len(marker) + 1)), LAMBDA r :
         Bind(unmarshall_internal(r.obj, m, context), LAMBDA cm :
         Bind(dict_get(cm.obj, K_map_class_map, PyDict(EmptyDict)),
              LAMBDA class_map :
         ContextUnmarshaller_classes(class_map.val, iteritems(class_map.val).val,
                                     EmptyDict).val)))

\* the for loop of ListUnmarshaller.unmarshall with such a context
RECURSIVE ListUnmarshaller_loop_leaking(_, _, _, _, _)
ListUnmarshaller_loop_leaking(i, count, items, m, context) ==
    IF i >= count
    THEN IF items # <<>>
         THEN Raise(STAFUnmarshallError, "unexpected trailing data")
         ELSE Return(<<>>)
    ELSE Bind(unmarshall_internal(items, m, context), LAMBDA obj :
         IF ~obj.ok THEN obj
         ELSE Bind(ListUnmarshaller_loop_leaking(
                       i + 1, count, obj.rest, m,
                       LeakedContext(items, m, context)),
                   LAMBDA more :
              IF ~more.ok THEN more ELSE Return(<<obj.obj>> \o more.val)))

\* the for loop of ListUnmarshaller.unmarshall, then its trailing-data check
ListUnmarshaller_loop(i, count, items, m, context) ==
    IF i >= count
    THEN IF items # <<>>
         THEN Raise(STAFUnmarshallError, "unexpected trailing data")
         ELSE Return(<<>>)
    ELSE Bind(unmarshall_internal(items, m, context), LAMBDA obj :
         IF ~obj.ok THEN obj
         ELSE Bind(ListUnmarshaller_loop(i + 1, count, obj.rest, m, context),
                   LAMBDA more :
              IF ~more.ok THEN more ELSE Return(<<obj.obj>> \o more.val)))

ListUnmarshaller_unmarshall(s, m, context) ==
    Bind(count_matcher(s), LAMBDA mt :
    IF ~mt.matched
    THEN Raise(STAFUnmarshallError, "bad format for list object")
    ELSE Bind(read_clc_obj(mt.rest), LAMBDA r :
         IF ~r.ok THEN r
         ELSE Bind(ListUnmarshaller_loop(0, int(mt.count), r.obj, m, context),
                   LAMBDA l :
              IF ~l.ok THEN l ELSE Return2(PyList(l.val), r.rest))))

\* the for loop of MapClassUnmarshaller.unmarshall over class_def.keys, then
\* its trailing-data check
MapClassUnmarshaller_loop(keys, values, m, context, res) ==
    IF keys = <<>>
    THEN IF values # <<>>
         THEN Raise(STAFUnmarshallError, "unexpected trailing data")
         ELSE Return(res)
    ELSE Bind(unmarshall_internal(values, m, context), LAMBDA value :
         IF ~value.ok THEN value
         ELSE Bind(MapClass_setitem(res, Head(keys), value.obj), LAMBDA set :
              IF ~set.ok THEN set
              ELSE MapClassUnmarshaller_loop(Tail(keys), value.rest, m, context,
                                             set.val)))

\* MapClassUnmarshaller.unmarshall that takes a class without a definition
\* for a class without keys
MapClassUnmarshaller_unmarshall_default(s, m, context) ==
    Bind(read_clc_obj(s), LAMBDA r :
    IF ~r.ok THEN r
    ELSE Bind(read_clc_obj(r.obj), LAMBDA n :
         IF ~n.ok THEN n
         ELSE Bind(IF PyStr(n.obj) \in DOMAIN context THEN context[PyStr(n.obj)]
                   ELSE MapClassDefinition(n.obj),
                   LAMBDA class_def :
              Bind(MapClassUnmarshaller_loop(
                       class_def.keys, n.rest, m, context,
                       MapClass_init(class_def.name, class_def.keys,
                                     class_def.names)),
                   LAMBDA l :
                   IF ~l.ok THEN l ELSE Return2(l.val, r.rest)))))

MapClassUnmarshaller_unmarshall(s, m, context) ==
    Bind(read_clc_obj(s), LAMBDA r :
    IF ~r.ok THEN r
    ELSE Bind(read_clc_obj(r.obj), LAMBDA n :
         IF ~n.ok THEN n
         ELSE IF PyStr(n.obj) \notin DOMAIN context
         THEN Raise(STAFUnmarshallError, "missing map class definition")
         ELSE Bind(context[PyStr(n.obj)], LAMBDA class_def :
              Bind(map_class(class_def, EmptyDict), LAMBDA made :
              IF ~made.ok THEN made
              ELSE Bind(MapClassUnmarshaller_loop(class_def.keys, n.rest,
                                                  m, context, made.val),
                        LAMBDA l :
                   IF ~l.ok THEN l ELSE Return2(l.val, r.rest))))))

\* the inner for loop of ContextUnmarshaller.unmarshall: one add_item per
\* field descriptor
RECURSIVE ContextUnmarshaller_items(_, _)
ContextUnmarshaller_items(class_def, items) ==
    IF items = <<>> THEN Return(class_def)
    ELSE Bind(getitem(Head(items), K_key), LAMBDA key :
         IF ~key.ok THEN key
         ELSE Bind(getitem(Head(items), K_display_name), LAMBDA dn :
              IF ~dn.ok THEN dn
              ELSE Bind(dict_get(Head(items), K_display_short_name, PyNone),
                        LAMBDA ds :
                   IF ~ds.ok THEN ds
                   ELSE Bind(add_item(class_def, key.val, dn.val, ds.val),
                             LAMBDA a :
                        IF ~a.ok THEN a
                        ELSE ContextUnmarshaller_items(a.val, Tail(items))))))

\* the outer for loop of ContextUnmarshaller.unmarshall: one
\* MapClassDefinition per entry of class_map
ContextUnmarshaller_classes(class_map, names, new_context) ==
    IF names = <<>> THEN Return(new_context)
    ELSE Bind(getitem(class_map.v[Head(names)], K_keys), LAMBDA ks :
         IF ~ks.ok THEN ks
         ELSE Bind(iter(ks.val), LAMBDA its :
              IF ~its.ok THEN its
              ELSE Bind(ContextUnmarshaller_items(
                            MapClassDefinition(Head(names).v), its.val),
                        LAMBDA class_def :
                   IF ~class_def.ok THEN class_def
                   ELSE ContextUnmarshaller_classes(
                            class_map, Tail(names),
                            setitem(new_context, Head(names), class_def.val)))))

ContextUnmarshaller_unmarshall(s, m, context) ==
    Bind(read_clc_obj(s), LAMBDA r :
    IF ~r.ok THEN r
    ELSE Bind(unmarshall_internal(r.obj, m, context), LAMBDA cm :
    IF ~cm.ok THEN cm
    ELSE Bind(dict_get(cm.obj, K_map_class_map, PyDict(EmptyDict)),
              LAMBDA class_map :
    IF ~class_map.ok THEN class_map
    ELSE Bind(iteritems(class_map.val), LAMBDA names :
    IF ~names.ok THEN names
    ELSE Bind(ContextUnmarshaller_classes(class_map.val, names.val, EmptyDict),
              LAMBDA new_context :
    IF ~new_context.ok THEN new_context
    ELSE Bind(unmarshall_internal(cm.rest, m, new_context.val), LAMBDA root :
    IF ~root.ok THEN root
    ELSE IF root.rest # <<>>
    THEN Raise(STAFUnmarshallError, "unexpected trailing data")
    ELSE Return2(root.obj, r.rest)))))))

(***************************************************************************)
(* The entry points                                                        *)
(***************************************************************************)
unmarshall_internal(s, m, context) ==
    IF ~startswith(s, marker)
    THEN Raise(STAFUnmarshallError, "missing marshalled data marker")
    ELSE IF Len(s) <= Len(marker)
    THEN Raise(STAFUnmarshallError, "incomplete marshalled data")
    ELSE LET symbol == s[Len(marker) + 1]
             rest == SliceFrom(s, Len(marker) + 1)
             unmarshaller == get_unmarshaller(symbol)
         IN  CASE unmarshaller = "ScalarUnmarshaller" ->
                      ScalarUnmarshaller_unmarshall(rest, m, context)
               [] unmarshaller = "MapUnmarshaller" ->
                      MapUnmarshaller_unmarshall(rest, m, context)
               [] unmarshaller = "ListUnmarshaller" ->
                      ListUnmarshaller_unmarshall(rest, m, context)
               [] unmarshaller = "MapClassUnmarshaller" ->
                      MapClassUnmarshaller_unmarshall(rest, m, context)
               [] unmarshaller = "ContextUnmarshaller" ->
                      ContextUnmarshaller_unmarshall(rest, m, context)
               [] OTHER ->
                      Raise(STAFUnmarshallError, "unrecognized data type indicator")

\* unmarshall_force without the UNMARSHALL_NONE shortcut
unmarshall_force_always(s, m) ==
    Bind(unmarshall_internal(s, m, EmptyDict), LAMBDA r :
    IF ~r.ok THEN r
    ELSE IF r.rest # <<>>
    THEN Raise(STAFUnmarshallError, "unexpected trailing data")
    ELSE Return(r.obj))

\* unmarshall_force that starts from the class definitions that the inputs
\* of the other calls declare, not from no definitions
unmarshall_force_kept(s, m) ==
    IF m = UNMARSHALL_NONE THEN Return(PyStr(s))
    ELSE Bind(unmarshall_internal(
                  s, m,
                  IF \E i \in DOMAIN calls :
                         /\ calls[i].data # s
                         /\ startswith(calls[i].data, marker \o <<"*">>)
                  THEN PyStr(<<"C">>) :>
                           add_item(MapClassDefinition(<<"C">>),
                                    PyStr(<<"f", "1">>), PyStr(<<"F", "1">>),
                                    PyStr(<<"s", "1">>)).val
                  ELSE EmptyDict),
              LAMBDA r :
         IF ~r.ok THEN r
         ELSE IF r.rest # <<>>
         THEN Raise(STAFUnmarshallError, "unexpected trailing data")
         ELSE Return(r.obj))

\* unmarshall_force that does not look at what follows the object
unmarshall_force_lax(s, m) ==
    IF m = UNMARSHALL_NONE THEN Return(PyStr(s))
    ELSE Bind(unmarshall_internal(s, m, EmptyDict), LAMBDA r :
         IF ~r.ok THEN r ELSE Return(r.obj))

unmarshall_force(s, m) ==
    IF m = UNMARSHALL_NONE THEN Return(PyStr(s))
    ELSE Bind(unmarshall_internal(s, m, EmptyDict), LAMBDA r :
         IF ~r.ok THEN r
         ELSE IF r.rest # <<>>
         THEN Raise(STAFUnmarshallError, "unexpected trailing data")
         ELSE Return(r.obj))

\* unmarshall that answers an unmarshalling error with None, not with data
unmarshall_none_on_error(s, m) ==
    Bind(unmarshall_force(s, m), LAMBDA r :
    IF ~r.ok /\ r.exc = STAFUnmarshallError THEN Return(PyNone) ELSE r)

unmarshall(s, m) ==
    Bind(unmarshall_force(s, m), LAMBDA r :
    IF ~r.ok /\ r.exc = STAFUnmarshallError THEN Return(PyStr(s)) ELSE r)

(***************************************************************************)
(* The inputs: what a STAF service puts on the wire                        *)
(*                                                                         *)
(* The sender's values are the Python values above, plus Enc(w): a string  *)
(* that holds the marshalled form of w (marshalled data nested in a string *)
(* field), and Rec(c, vs): a map class instance of class c with the values *)
(* vs in field order.                                                      *)
(***************************************************************************)
MaxNest == 3

MaxCount == 2

MaxPairs == 2

MaxFields == 2

Modes == {UNMARSHALL_RECURSIVE, UNMARSHALL_NON_RECURSIVE, UNMARSHALL_NONE}

Enc(w) == [t |-> "enc", v |-> w]

Rec(c, vs) == [t |-> "rec", v |-> vs, class_name |-> c]

\* decimal digits of n >= 0
RECURSIVE Dec(_)
Dec(n) == IF n < 10 THEN <<Digits[n + 1]>> ELSE Dec(n \div 10) \o <<Digits[(n % 10) + 1]>>

\* colon-length-colon framing of s
clc(s) == <<":">> \o Dec(Len(s)) \o <<":">> \o s

RECURSIVE Concat(_)
Concat(ss) == IF ss = <<>> THEN <<>> ELSE Head(ss) \o Concat(Tail(ss))

\* the wire form of a sender's value
RECURSIVE marshall(_)
marshall(v) ==
    CASE v.t = "None" -> marker \o <<"$", "0">> \o clc(<<>>)
      [] v.t = "str" -> marker \o <<"$", "S">> \o clc(v.v)
      [] v.t = "enc" -> marker \o <<"$", "S">> \o clc(marshall(v.v))
      [] v.t = "list" ->
             marker \o <<"[">> \o Dec(Len(v.v))
                 \o clc(Concat([i \in DOMAIN v.v |-> marshall(v.v[i])]))
      [] v.t = "dict" ->
             LET ks == SeqOf(DOMAIN v.v) IN
             marker \o <<"{">>
                 \o clc(Concat([i \in DOMAIN ks |->
                                   clc(ks[i].v) \o marshall(v.v[ks[i]])]))
      [] v.t = "rec" ->
             marker \o <<"%">>
                 \o clc(clc(v.class_name)
                        \o Concat([i \in DOMAIN v.v |-> marshall(v.v[i])]))

\* a list entry with a declared count that need not be the number of elements
marshall_list(count, elems) ==
    marker \o <<"[">> \o Dec(count)
        \o clc(Concat([i \in DOMAIN elems |-> marshall(elems[i])]))

\* a map entry from a run of <<key, value>> pairs, followed by tail
marshall_map(pairs, tail) ==
    marker \o <<"{">>
        \o clc(Concat([i \in DOMAIN pairs |->
                          clc(pairs[i][1]) \o marshall(pairs[i][2])]) \o tail)

\* a context entry: the context map, then the root entry
marshall_context(context_map, root) ==
    marker \o <<"*">> \o clc(marshall(context_map) \o root)

\* the value the receiver is to get for a sender's value
RECURSIVE decoded(_, _)
decoded(v, m) ==
    CASE v.t = "enc" ->
             IF m = UNMARSHALL_RECURSIVE THEN decoded(v.v, m)
             ELSE PyStr(marshall(v.v))
      [] v.t = "list" -> PyList([i \in DOMAIN v.v |-> decoded(v.v[i], m)])
      [] v.t = "dict" -> PyDict([k \in DOMAIN v.v |-> decoded(v.v[k], m)])
      [] OTHER -> v

\* k-fold nesting of w in strings
RECURSIVE Wrap(_, _)
Wrap(k, w) == IF k = 0 THEN w ELSE Enc(Wrap(k - 1, w))

SeqsUpTo(S, n) == UNION {[1..i -> S] : i \in 0..n}

foo == <<"f", "o", "o">>

UnmarkedTexts ==
    {SubSeq(marker, 1, n) : n \in 0..(Len(marker) - 1)}
        \cup {foo, <<"S", "D", "T", "/", "$", "S", ":", "0", ":">>,
              <<" ">> \o marshall(PyNone), <<"@", "S", "D", "T", "\\">>}

ScalarTypes == {<<"0">>, <<"S">>, <<"J">>, <<"s">>, <<>>}

Contents == {<<>>, <<"a">>, foo, <<" ", "\t", "a", "\n", " ">>}

Inner == {PyNone, PyStr(<<>>), PyStr(foo), PyList(<<>>)}

Elems == {PyNone, PyStr(<<"a">>), PyList(<<>>), PyDict(EmptyDict),
          Enc(PyList(<<>>))}

Keys == {<<>>, <<"k">>, marshall(PyNone)}

MapVals == {PyNone, PyStr(<<"a">>), PyList(<<PyNone>>), Enc(PyStr(foo))}

MapTails == {<<>>, clc(<<"k">>), marshall(PyNone)}

Samples ==
    {marshall(v) : v \in Elems \cup {PyList(<<e>>) : e \in Elems}}
        \cup {marshall(PyDict([k \in {PyStr(<<"k">>)} |-> e])) : e \in Elems}
        \cup {marshall(Wrap(2, PyStr(foo))),
              marshall(PyList(<<PyList(<<>>), PyNone, PyStr(foo),
                                 PyDict(EmptyDict)>>))}

ExtraChars == {"a", ":", "0", "@"}

\* the i-th field descriptor of a class: key, display name and, for odd i, a
\* short display name
descriptor(i) ==
    PyDict(IF i % 2 = 1
           THEN K_key :> PyStr(<<"f", Digits[i + 1]>>)
                    @@ K_display_name :> PyStr(<<"F", Digits[i + 1]>>)
                    @@ K_display_short_name :> PyStr(<<"s", Digits[i + 1]>>)
           ELSE K_key :> PyStr(<<"f", Digits[i + 1]>>)
                    @@ K_display_name :> PyStr(<<"F", Digits[i + 1]>>))

ClassC == <<"C">>

ClassNames == {ClassC, <<"X">>}

\* the context map that declares class C with f fields
ContextMap(f) ==
    PyDict(K_map_class_map :>
           PyDict(PyStr(ClassC) :>
                  PyDict(K_keys :> PyList([i \in 1..f |-> descriptor(i)])
                             @@ PyStr(<<"n", "a", "m", "e">>) :> PyStr(ClassC))))

\* n field values, each naming its position
FieldValues(n) == [i \in 1..n |-> PyStr(<<"v", Digits[i + 1]>>)]

\* context maps from which no class definitions can be built, or none are
InfoMap(info) == PyDict(K_map_class_map :> PyDict(PyStr(ClassC) :> info))

OddContextMaps ==
    {PyNone, PyStr(<<"x">>), PyList(<<>>), PyDict(EmptyDict),
     PyDict(K_map_class_map :> PyNone),
     PyDict(K_map_class_map :> PyList(<<PyNone>>)),
     InfoMap(PyNone),
     InfoMap(PyDict(EmptyDict)),
     InfoMap(PyDict(K_keys :> PyNone)),
     InfoMap(PyDict(K_keys :> PyStr(<<>>))),
     InfoMap(PyDict(K_keys :> PyStr(<<"k">>))),
     InfoMap(PyDict(K_keys :> PyList(<<PyNone>>))),
     InfoMap(PyDict(K_keys :> PyList(<<PyDict(EmptyDict)>>))),
     InfoMap(PyDict(K_keys :> PyList(<<PyDict(K_key :> PyStr(<<"k">>))>>))),
     InfoMap(PyDict(K_keys :> PyList(<<PyDict(K_key :> Enc(PyList(<<>>))
                                               @@ K_display_name :> PyNone)>>)))}

\* where the map class instance sits: it is the root of its context, the only
\* element of a root list, the only value of a root map, or the root of a
\* context that is marshalled inside a string
Holders == {"root", "list", "map", "str"}

RecordInput(f, c, n, holder) ==
    LET rec == Rec(c, FieldValues(n)) IN
    CASE holder = "root" -> marshall_context(ContextMap(f), marshall(rec))
      [] holder = "list" ->
             marshall_context(ContextMap(f), marshall(PyList(<<rec>>)))
      [] holder = "map" ->
             marshall_context(ContextMap(f),
                              marshall(PyDict(PyStr(<<"k">>) :> rec)))
      [] holder = "str" ->
             marker \o <<"$", "S">>
                 \o clc(marshall_context(ContextMap(f), marshall(rec)))

\* a map class instance that no context encloses: alone, as the only element
\* of a list or as the only value of a map
BareHolders == {"root", "list", "map"}

BareInput(c, n, holder) ==
    LET rec == Rec(c, FieldValues(n)) IN
    CASE holder = "root" -> marshall(rec)
      [] holder = "list" -> marshall(PyList(<<rec>>))
      [] holder = "map" -> marshall(PyDict(PyStr(<<"k">>) :> rec))

\* a context that declares class C with one field, whose root is a context
\* that declares C with g fields, or declares no class, whose root is an
\* instance of C with n values
NestedContextInput(declares, g, n) ==
    marshall_context(
        ContextMap(1),
        marshall_context(IF declares THEN ContextMap(g) ELSE PyDict(EmptyDict),
                         marshall(Rec(ClassC, FieldValues(n)))))

\* a list of two elements: a context block whose context map declares class
\* C with two fields, or no class, and whose root is None, then an instance
\* of class c with n values; outer tells whether the list is the root of a
\* context that declares C with one field or stands alone.  With plain, the
\* first element is None itself.
SiblingList(first, c, n, outer) ==
    LET list == marker \o <<"[">> \o Dec(2)
                    \o clc(first \o marshall(Rec(c, FieldValues(n))))
    IN  IF outer THEN marshall_context(ContextMap(1), list) ELSE list

SiblingInput(inner, c, n, outer) ==
    SiblingList(marshall_context(IF inner THEN ContextMap(2) ELSE PyDict(EmptyDict),
                                 marshall(PyNone)),
                c, n, outer)

PlainSiblingInput(c, n, outer) == SiblingList(marshall(PyNone), c, n, outer)

\* the string s marshalled as a string
TextInput(s) == marker \o <<"$", "S">> \o clc(s)

\* where the marshalled map class instance sits as a string: it is the root
\* of the context, the only element of a root list, the only key of a root
\* map, or it is in a list that is marshalled as a string
TextHolders == {"root", "list", "key", "nested"}

\* a map class instance, marshalled
RecordText(c, n) == marshall(Rec(c, FieldValues(n)))

\* a context that declares class C with f fields and holds such a string
ContextTextInput(f, n, holder) ==
    marshall_context(
        ContextMap(f),
        CASE holder = "root" -> TextInput(RecordText(ClassC, n))
          [] holder = "list" ->
                 marshall(PyList(<<Enc(Rec(ClassC, FieldValues(n)))>>))
          [] holder = "key" ->
                 marshall_map(<<<<RecordText(ClassC, n), PyNone>>>>, <<>>)
          [] holder = "nested" ->
                 marshall(Enc(PyList(<<Rec(ClassC, FieldValues(n))>>))))

\* what a string may hold that is marshalled as a string itself: complete
\* encodings, encodings cut off after the marker or later, an unknown type
\* indicator, an encoding followed by more data, a map class instance with
\* and without the context that declares its class, a context with a
\* context map that is None
TextContents ==
    {marshall(PyNone), marshall(PyStr(foo)), marshall(PyList(<<PyNone>>))}
        \cup {SubSeq(e, 1, n) : e \in {marshall(PyList(<<PyNone>>))},
                                n \in Len(marker)..(Len(marshall(PyList(<<PyNone>>))) - 1)}
        \cup {marker \o <<"?">>, marker \o <<"s">> \o clc(<<>>)}
        \cup {marshall(PyNone) \o <<x>> : x \in ExtraChars}
        \cup {BareInput(ClassC, 1, "root"), BareInput(ClassC, 1, "list"),
              RecordInput(1, ClassC, 1, "root"),
              marshall_context(PyNone, marshall(PyNone))}

(***************************************************************************)
(* The state machine: one input and one mode, on which unmarshall and      *)
(* unmarshall_force are each called once.  shape records how the input was *)
(* built.                                                                  *)
(***************************************************************************)
Pending == [ok |-> FALSE, exc |-> "Pending", msg |-> "not called"]

\* no MapClass instance has been created
NoMapClass == [t |-> "NoMapClass"]

\* no operation has been called
NoOp == [op |-> "none", args |-> <<>>, r |-> Pending, before |-> NoMapClass]

\* no Handle has been created
NoHandle == [made |-> FALSE]

\* the STAF server with no handle registered
NoServer == [handles |-> {}]

\* nothing has been done with a Handle
NoLast == [op |-> "none"]

NoHandleUse ==
    /\ handle = NoHandle
    /\ server = NoServer
    /\ block = "out"
    /\ lastop = NoLast

\* no iterator has been created
NoIterator == [kind |-> "none", snapshot |-> <<>>, pos |-> 0]

\* the state of the part of the program a specification does not exercise
NoCall ==
    /\ data = <<>>
    /\ shape = [form |-> "none"]
    /\ mode = UNMARSHALL_NONE
    /\ result = Pending
    /\ forced = Pending

NoMapClassUse ==
    /\ mapdef = MapClassDefinition(<<>>)
    /\ instance = NoMapClass
    /\ bound = MapClassDefinition(<<>>)
    /\ order = <<>>
    /\ ret = NoOp
    /\ iterator = NoIterator

Start(d, sh) ==
    /\ data = d
    /\ shape = sh
    /\ mode \in Modes
    /\ result = Pending
    /\ forced = Pending
    /\ NoMapClassUse
    /\ calls = <<>>
    /\ stack = <<>>
    /\ NoHandleUse

Init ==
    \/ \E t \in UnmarkedTexts : Start(t, [form |-> "text"])
    \/ \E typ \in ScalarTypes, c \in Contents :
           Start(marker \o <<"$">> \o typ \o clc(c),
                 [form |-> "scalar", typ |-> typ, content |-> c])
    \/ \E k \in 1..MaxNest, w \in Inner :
           Start(marshall(Wrap(k, w)), [form |-> "nested", k |-> k, inner |-> w])
    \/ \E count \in 0..(MaxCount + 1), elems \in SeqsUpTo(Elems, MaxCount) :
           Start(marshall_list(count, elems),
                 [form |-> "list", count |-> count, elems |-> elems])
    \/ \E pairs \in SeqsUpTo(Keys \X MapVals, MaxPairs), tail \in MapTails :
           Start(marshall_map(pairs, tail),
                 [form |-> "map", pairs |-> pairs, tail |-> tail])
    \/ \E f \in 0..MaxFields, c \in ClassNames, n \in 0..(MaxFields + 1),
          holder \in Holders :
           Start(RecordInput(f, c, n, holder),
                 [form |-> "record", fields |-> f, class_name |-> c,
                  values |-> n, holder |-> holder])
    \/ \E c \in ClassNames, n \in 0..MaxFields, holder \in BareHolders :
           Start(BareInput(c, n, holder),
                 [form |-> "bare", class_name |-> c, values |-> n,
                  holder |-> holder])
    \/ \E f \in 0..MaxFields, w \in Inner :
           Start(marshall_context(ContextMap(f), marshall(w)),
                 [form |-> "context", fields |-> f, root |-> w])
    \/ \E f \in 0..MaxFields, w \in Inner, x \in ExtraChars :
           Start(marshall_context(ContextMap(f), marshall(w) \o <<x>>),
                 [form |-> "contexttail", fields |-> f, root |-> w, extra |-> x])
    \/ \E declares \in BOOLEAN, g \in 0..MaxFields, n \in 0..MaxFields :
           Start(NestedContextInput(declares, g, n),
                 [form |-> "nestedcontext", declares |-> declares,
                  fields |-> g, values |-> n])
    \/ \E cm \in OddContextMaps :
           Start(marshall_context(cm, marshall(PyNone)),
                 [form |-> "oddcontext", context_map |-> cm])
    \/ \E inner \in BOOLEAN, c \in ClassNames, n \in 0..MaxFields,
          outer \in BOOLEAN :
           Start(SiblingInput(inner, c, n, outer),
                 [form |-> "sibling", inner |-> inner, class_name |-> c,
                  values |-> n, outer |-> outer])
    \/ \E f \in 1..MaxFields, n \in 0..MaxFields, holder \in TextHolders :
           Start(ContextTextInput(f, n, holder),
                 [form |-> "contexttext", fields |-> f, values |-> n,
                  holder |-> holder])
    \/ \E c \in TextContents :
           Start(TextInput(c), [form |-> "textscalar", content |-> c])
    \/ \E e \in Samples, n \in 0..100 :
           /\ n < Len(e)
           /\ Start(SubSeq(e, 1, n), [form |-> "truncated", of |-> e, n |-> n])
    \/ \E e \in Samples, x \in ExtraChars :
           Start(e \o <<x>>, [form |-> "extended", of |-> e, extra |-> x])

\* a caller calls unmarshall(data, mode)
Unmarshall ==
    /\ result = Pending
    /\ result' = unmarshall(data, mode)
    /\ UNCHANGED <<data, mode, shape, forced, mapClassVars, calls, stack, handleVars>>

\* a caller calls unmarshall_force(data, mode)
UnmarshallForce ==
    /\ forced = Pending
    /\ forced' = unmarshall_force(data, mode)
    /\ UNCHANGED <<data, mode, shape, result, mapClassVars, calls, stack, handleVars>>

Next == Unmarshall \/ UnmarshallForce

Spec == Init /\ [][Next]_vars

(***************************************************************************)
(* The state machine of a MapClassDefinition and a MapClass: a program     *)
(* adds items to the definition mapdef, creates the MapClass instance from *)
(* it and calls the methods of instance.  bound is the definition as it    *)
(* was when instance was created, order the keys in the order in which     *)
(* their items were assigned, ret the last call: its name, arguments and   *)
(* outcome, and the instance as it was before the call.                    *)
(***************************************************************************)
MaxAssign == 2

KeyA == PyStr(<<"a">>)

KeyB == PyStr(<<"b">>)

\* a key that no definition holds
KeyZ == PyStr(<<"z">>)

OpKeys == {KeyA, KeyB, KeyZ}

\* the (key, display_name, display_short_name) that add_item is called with
Items ==
    {<<KeyA, PyStr(<<"A">>), PyNone>>,
     <<KeyA, PyStr(<<"A", "2">>), PyStr(<<"s">>)>>,
     <<KeyB, PyStr(<<"B">>), PyStr(<<"t">>)>>}

OpValues == {PyStr(<<"1">>), PyStr(<<"2">>)}

\* the dicts that update and map_class are called with
Updates ==
    {EmptyDict, KeyA :> PyStr(<<"1">>), KeyZ :> PyStr(<<"1">>),
     KeyB :> PyStr(<<"2">>) @@ KeyA :> PyStr(<<"1">>),
     KeyA :> PyStr(<<"1">>) @@ KeyZ :> PyStr(<<"2">>)}

\* the positional arguments that setdefault is called with
SetdefaultArgs == {<<k>> : k \in OpKeys} \cup {<<k, PyStr(<<"1">>)>> : k \in OpKeys}

Op(op, args, r) == [op |-> op, args |-> args, r |-> r, before |-> instance]

InitMapClass ==
    /\ NoCall
    /\ calls = <<>>
    /\ stack = <<>>
    /\ NoHandleUse
    /\ mapdef = MapClassDefinition(ClassC)
    /\ instance = NoMapClass
    /\ bound = MapClassDefinition(ClassC)
    /\ order = <<>>
    /\ ret = NoOp
    /\ iterator = NoIterator

\* mapdef.add_item(key, display_name, display_short_name)
AddItem ==
    \E it \in Items :
        /\ Len(mapdef.keys) < MaxFields
        /\ mapdef' = add_item(mapdef, it[1], it[2], it[3]).val
        /\ ret' = Op("add_item", it, Return(PyNone))
        /\ UNCHANGED <<instance, bound, order, iterator, callVars, calls, stack, handleVars>>

\* instance = MapClass(mapdef.name, mapdef.keys, mapdef._names); an iterator
\* over the instance that the name was bound to is dropped with it
NewMapClass ==
    /\ instance' = MapClass_init(mapdef.name, mapdef.keys, mapdef.names)
    /\ bound' = mapdef
    /\ order' = <<>>
    /\ ret' = Op("MapClass", <<>>, Return(PyNone))
    /\ iterator' = NoIterator
    /\ UNCHANGED <<mapdef, callVars, calls, stack, handleVars>>

\* instance = mapdef.map_class(as_dict): nothing is assigned when it raises
MapClassOf ==
    \E as_dict \in Updates :
        LET r == map_class(mapdef, as_dict) IN
        /\ instance' = IF r.ok THEN r.val ELSE instance
        /\ bound' = IF r.ok THEN mapdef ELSE bound
        /\ order' = IF r.ok THEN <<>> ELSE order
        /\ ret' = Op("map_class", <<as_dict>>, IF r.ok THEN Return(PyNone) ELSE r)
        /\ iterator' = IF r.ok THEN NoIterator ELSE iterator
        /\ UNCHANGED <<mapdef, callVars, calls, stack, handleVars>>

\* instance[key] = value
SetItem ==
    \E key \in OpKeys, value \in OpValues :
        LET r == MapClass_setitem(instance, key, value) IN
        /\ instance # NoMapClass
        /\ Len(order) < MaxAssign
        /\ instance' = IF r.ok THEN r.val ELSE instance
        /\ order' = IF r.ok THEN Append(order, key) ELSE order
        /\ ret' = Op("setitem", <<key, value>>, IF r.ok THEN Return(PyNone) ELSE r)
        /\ UNCHANGED <<mapdef, bound, iterator, callVars, calls, stack, handleVars>>

\* a method call that assigns nothing to the program's variables
Call(op, args, r) ==
    /\ instance # NoMapClass
    /\ ret' = Op(op, args, r)
    /\ UNCHANGED <<mapdef, instance, bound, order, iterator, callVars, calls, stack, handleVars>>

\* del instance[key]
DelItem == \E key \in OpKeys : Call("delitem", <<key>>, MapClass_delitem(instance, key))

\* instance.clear()
Clear == Call("clear", <<>>, MapClass_clear(instance))

\* instance.pop(key)
Pop == \E key \in OpKeys : Call("pop", <<key>>, MapClass_pop(instance, key, PyNone))

\* instance.popitem()
PopItem == Call("popitem", <<>>, MapClass_popitem(instance))

\* instance.setdefault(*args)
SetDefault ==
    \E args \in SetdefaultArgs :
        Call("setdefault", args, MapClass_setdefault(instance, args))

\* instance.update(as_dict)
Update ==
    \E as_dict \in Updates :
        Call("update", <<as_dict>>, MapClass_update(instance, as_dict))

\* instance.keys()
KeysOf == Call("keys", <<>>, Return(MapClass_keys(instance)))

\* instance.values()
ValuesOf == Call("values", <<>>, Return(MapClass_values(instance)))

\* instance.items()
ItemsOf == Call("items", <<>>, Return(MapClass_items(instance)))

\* instance.display_name(key)
DisplayName ==
    \E key \in OpKeys :
        Call("display_name", <<key>>, MapClass_display_name(instance, key))

\* instance.display_short_name(key)
DisplayShortName ==
    \E key \in OpKeys :
        Call("display_short_name", <<key>>,
             MapClass_display_short_name(instance, key))

\* instance.definition()
Definition == Call("definition", <<>>, MapClass_definition(instance))

NextMapClass ==
    \/ AddItem
    \/ NewMapClass
    \/ MapClassOf
    \/ SetItem
    \/ DelItem
    \/ Clear
    \/ Pop
    \/ PopItem
    \/ SetDefault
    \/ Update
    \/ KeysOf
    \/ ValuesOf
    \/ ItemsOf
    \/ DisplayName
    \/ DisplayShortName
    \/ Definition

SpecMapClass == InitMapClass /\ [][NextMapClass]_vars

(***************************************************************************)
(* The state machine of an iteration over a MapClass: a program creates an *)
(* iterator over instance, assigns items and calls next on the iterator.   *)
(* values() and items() return a list, which list(...) fills when the      *)
(* method is called, so iter() of it walks that list: snapshot.            *)
(* itervalues() and iteritems() return a generator, which reads            *)
(* self[key] when next asks for the item.  pos is the number of items the  *)
(* iterator has yielded.                                                   *)
(***************************************************************************)
ListKinds == {"values", "items"}

GeneratorKinds == {"itervalues", "iteritems"}

\* what the method named kind returns for self, as a sequence
IterableOf(kind, self) ==
    IF kind \in {"values", "itervalues"} THEN MapClass_values(self)
    ELSE MapClass_items(self)

\* iterator = iter(instance.values()), iter(instance.items())
IterList ==
    \E kind \in ListKinds :
        /\ instance # NoMapClass
        /\ iterator' = [kind |-> kind, snapshot |-> IterableOf(kind, instance),
                        pos |-> 0]
        /\ ret' = Op("iter", <<kind>>, Return(PyNone))
        /\ UNCHANGED <<mapdef, instance, bound, order, callVars, calls, stack, handleVars>>

\* iterator = instance.itervalues(), instance.iteritems(): the body of the
\* generator has not started
IterGenerator ==
    \E kind \in GeneratorKinds :
        /\ instance # NoMapClass
        /\ iterator' = [kind |-> kind, snapshot |-> <<>>, pos |-> 0]
        /\ ret' = Op("iter", <<kind>>, Return(PyNone))
        /\ UNCHANGED <<mapdef, instance, bound, order, callVars, calls, stack, handleVars>>

\* the items the iterator walks: the list it was created on, or what the
\* generator reads from the instance now
Walked == IF iterator.kind \in ListKinds THEN iterator.snapshot
          ELSE IterableOf(iterator.kind, instance)

\* next(iterator)
NextOf ==
    /\ iterator # NoIterator
    /\ IF iterator.pos < Len(Walked)
       THEN /\ ret' = Op("next", <<iterator.kind>>, Return(Walked[iterator.pos + 1]))
            /\ iterator' = [iterator EXCEPT !.pos = @ + 1]
       ELSE /\ ret' = Op("next", <<iterator.kind>>, Raise("StopIteration", ""))
            /\ UNCHANGED iterator
    /\ UNCHANGED <<mapdef, instance, bound, order, callVars, calls, stack, handleVars>>

NextIteration ==
    \/ AddItem
    \/ NewMapClass
    \/ SetItem
    \/ IterList
    \/ IterGenerator
    \/ NextOf

SpecIteration == InitMapClass /\ [][NextIteration]_vars

(***************************************************************************)
(* The state machine of several calls: each call of unmarshall or          *)
(* unmarshall_force is entered and, later, returns; calls that were        *)
(* entered and have not returned are in progress together.  calls holds    *)
(* the calls in the order in which they were entered, each with its        *)
(* function, its arguments and its outcome, Pending until it returns.      *)
(***************************************************************************)
MaxCalls == 2

ParsingModes == {UNMARSHALL_RECURSIVE, UNMARSHALL_NON_RECURSIVE}

Functions == {"unmarshall", "unmarshall_force"}

\* inputs that declare class C, with and without an instance of it, inputs
\* with an instance of C and no context, and an input without either
CallInputs ==
    {marshall_context(ContextMap(1), marshall(PyNone)),
     RecordInput(1, ClassC, 1, "root"),
     BareInput(ClassC, 1, "root"),
     BareInput(ClassC, 1, "list"),
     marshall(PyList(<<PyStr(foo)>>))}

InitCalls ==
    /\ NoCall
    /\ NoMapClassUse
    /\ calls = <<>>
    /\ stack = <<>>
    /\ NoHandleUse

\* a caller enters fn(d, m)
CallBegin ==
    \E fn \in Functions, d \in CallInputs, m \in ParsingModes :
        /\ Len(calls) < MaxCalls
        /\ calls' = Append(calls, [fn |-> fn, data |-> d, mode |-> m, r |-> Pending])
        /\ UNCHANGED <<callVars, mapClassVars, stack, handleVars>>

\* a call that was entered returns or raises
CallEnd ==
    \E i \in DOMAIN calls :
        /\ calls[i].r = Pending
        /\ calls' = [calls EXCEPT ![i].r =
                         IF calls[i].fn = "unmarshall"
                         THEN unmarshall(calls[i].data, calls[i].mode)
                         ELSE unmarshall_force(calls[i].data, calls[i].mode)]
        /\ UNCHANGED <<callVars, mapClassVars, stack, handleVars>>

NextCalls == CallBegin \/ CallEnd

SpecCalls == InitCalls /\ [][NextCalls]_vars

(***************************************************************************)
(* The state machine of the call stack: a call of unmarshall or            *)
(* unmarshall_force on data, step by step.  stack holds the calls that     *)
(* have been entered and have not returned, the outermost first: the       *)
(* function, its data argument and whether it has made its nested call.    *)
(* The inputs are chains, in which every list and map has one element and  *)
(* None is innermost, so that a call makes one nested call at most.  The   *)
(* code keeps no count of the depth; the interpreter does, and it raises   *)
(* RuntimeError in the call that would make the stack deeper than its      *)
(* recursion limit.                                                        *)
(***************************************************************************)
MaxDepth == 3

RecursionLimit == 8

ChainKinds == {"list", "map", "str"}

\* None, nested k times in a list, a map or a string
RECURSIVE Chain(_, _)
Chain(kind, k) ==
    IF k = 0 THEN PyNone
    ELSE CASE kind = "list" -> PyList(<<Chain(kind, k - 1)>>)
           [] kind = "map" -> PyDict(PyStr(<<"k">>) :> Chain(kind, k - 1))
           [] kind = "str" -> Enc(Chain(kind, k - 1))

Frame(fn, arg) == [fn |-> fn, arg |-> arg, called |-> FALSE]

NoFrame == Frame("none", <<>>)

\* the call that the call f makes on the way to its result, in mode m
Callee(f, m) ==
    CASE f.fn = "unmarshall" -> Frame("unmarshall_force", f.arg)
      [] f.fn = "unmarshall_force" ->
             IF m = UNMARSHALL_NONE THEN NoFrame
             ELSE Frame("unmarshall_internal", f.arg)
      [] f.fn = "unmarshall_internal" ->
             IF /\ startswith(f.arg, marker)
                /\ Len(f.arg) > Len(marker)
                /\ get_unmarshaller(f.arg[Len(marker) + 1]) # "None"
             THEN Frame(get_unmarshaller(f.arg[Len(marker) + 1]),
                        SliceFrom(f.arg, Len(marker) + 1))
             ELSE NoFrame
      [] f.fn = "ScalarUnmarshaller" ->
             IF /\ startswith(f.arg, <<"S">>)
                /\ read_clc_obj(Tail(f.arg)).ok
                /\ m = UNMARSHALL_RECURSIVE
             THEN Frame("unmarshall", read_clc_obj(Tail(f.arg)).obj)
             ELSE NoFrame
      [] f.fn = "ListUnmarshaller" ->
             LET mt == count_matcher(f.arg) IN
             IF mt.matched /\ read_clc_obj(mt.rest).ok /\ int(mt.count) > 0
             THEN Frame("unmarshall_internal", read_clc_obj(mt.rest).obj)
             ELSE NoFrame
      [] f.fn = "MapUnmarshaller" ->
             LET items == read_clc_obj(f.arg) IN
             IF items.ok /\ items.obj # <<>> /\ read_clc_obj(items.obj).ok
             THEN Frame("unmarshall_internal", read_clc_obj(items.obj).rest)
             ELSE NoFrame
      [] OTHER -> NoFrame

\* the RuntimeError of the interpreter
Exhausted == Raise("RuntimeError", "maximum recursion depth exceeded")

InitDepth ==
    /\ \E kind \in ChainKinds, k \in 0..MaxDepth :
           /\ data = marshall(Chain(kind, k))
           /\ shape = [form |-> "chain", kind |-> kind, k |-> k]
    /\ mode \in Modes
    /\ result = Pending
    /\ forced = Pending
    /\ NoMapClassUse
    /\ calls = <<>>
    /\ stack = <<>>
    /\ NoHandleUse

\* a caller calls unmarshall(data, mode) or unmarshall_force(data, mode)
Enter ==
    /\ stack = <<>>
    /\ \/ result = Pending /\ stack' = <<Frame("unmarshall", data)>>
       \/ forced = Pending /\ stack' = <<Frame("unmarshall_force", data)>>
    /\ UNCHANGED <<callVars, mapClassVars, calls, handleVars>>

Top == stack[Len(stack)]

\* the innermost call makes its nested call
Descend ==
    /\ stack # <<>>
    /\ ~Top.called
    /\ Callee(Top, mode) # NoFrame
    /\ Len(stack) < RecursionLimit
    /\ stack' = Append([stack EXCEPT ![Len(stack)].called = TRUE],
                       Callee(Top, mode))
    /\ UNCHANGED <<callVars, mapClassVars, calls, handleVars>>

\* the value of the outermost call
Outcome(f) == IF f.fn = "unmarshall" THEN unmarshall(f.arg, mode)
              ELSE unmarshall_force(f.arg, mode)

\* the outermost call ends with r
Finish(r) ==
    /\ stack' = <<>>
    /\ IF stack[1].fn = "unmarshall"
       THEN result' = r /\ UNCHANGED forced
       ELSE forced' = r /\ UNCHANGED result
    /\ UNCHANGED <<data, mode, shape, mapClassVars, calls, handleVars>>

\* the nested call cannot be made, the stack is as deep as the interpreter
\* lets it be: RuntimeError is raised there, and no call on the stack
\* catches it (unmarshall catches STAFUnmarshallError alone)
Overflow ==
    /\ stack # <<>>
    /\ ~Top.called
    /\ Callee(Top, mode) # NoFrame
    /\ Len(stack) >= RecursionLimit
    /\ Finish(Exhausted)

\* the innermost call returns or raises, having made its nested call if it
\* has one
Leave ==
    /\ stack # <<>>
    /\ Top.called \/ Callee(Top, mode) = NoFrame
    /\ IF Len(stack) = 1
       THEN Finish(Outcome(stack[1]))
       ELSE /\ stack' = SubSeq(stack, 1, Len(stack) - 1)
            /\ UNCHANGED <<callVars, mapClassVars, calls, handleVars>>

NextDepth == Enter \/ Descend \/ Overflow \/ Leave

SpecDepth == InitDepth /\ [][NextDepth]_vars

(***************************************************************************)
(* The state machine of a Handle (src/STAF/_staf.py): a program creates a  *)
(* Handle, static or not, uses it in a with block, submits requests and    *)
(* unregisters it.  server is the STAF server behind the API: the numbers  *)
(* of the handles it has registered.  It answers each API call with a      *)
(* return code, which check_rc turns into STAFResultError when it is not   *)
(* 0; it may restart and forget its handles, and it may not be running.    *)
(* block tells whether the program is in the body of a with block, lastop  *)
(* is the last operation: its name, its outcome, the Handle and the server *)
(* as they were before it, whether it called the API and the return code   *)
(* of the API.                                                             *)
(***************************************************************************)
Ok == 0

HandleDoesNotExist == 5

STAFNotRunning == 21

\* raise STAFResultError(rc)
ResultError(rc) == [ok |-> FALSE, exc |-> "STAFResultError", rc |-> rc]

\* the arguments of Handle(name): a name to register, the number of a static
\* handle
PyInt(n) == [t |-> "int", v |-> n]

HandleNames == {PyStr(<<"h">>), PyInt(1)}

\* the STAF server with the static handle 1, which some helper has created
InitServer == [handles |-> {1}]

\* the number the server gives to a handle it registers
NewNumber == 2

\* Handle.__init__ when RegisterUTF8 answers rc
Handle_init(name, rc) ==
    IF name.t = "str"
    THEN IF rc # Ok THEN ResultError(rc)
         ELSE Return([made |-> TRUE, handle |-> NewNumber, static |-> FALSE,
                      registered |-> TRUE])
    ELSE Return([made |-> TRUE, handle |-> name.v, static |-> TRUE,
                 registered |-> TRUE])

\* Handle.unregister that marks the Handle before it calls the API
Handle_unregister_eager(self, rc) ==
    IF self.static
    THEN [self |-> self, r |-> Return(PyNone), api |-> FALSE]
    ELSE [self |-> [self EXCEPT !.registered = FALSE],
          r |-> IF rc # Ok /\ rc # HandleDoesNotExist
                THEN ResultError(rc) ELSE Return(PyNone),
          api |-> TRUE]

\* Handle.unregister when UnRegister, if it is called, answers rc: the
\* Handle afterwards, the outcome and whether the API was called
Handle_unregister(self, rc) ==
    IF self.static
    THEN [self |-> self, r |-> Return(PyNone), api |-> FALSE]
    ELSE IF rc # Ok /\ rc # HandleDoesNotExist
    THEN [self |-> self, r |-> ResultError(rc), api |-> TRUE]
    ELSE [self |-> [self EXCEPT !.registered = FALSE],
          r |-> Return(PyNone), api |-> TRUE]

\* the return codes with which the server may answer a call for handle num
Answers(num) ==
    (IF num \in server.handles THEN {Ok} ELSE {HandleDoesNotExist})
        \cup {STAFNotRunning}

\* the server after STAFUnRegister(num) that it answered with rc
UnRegister(num, rc) ==
    IF rc = Ok THEN [server EXCEPT !.handles = @ \ {num}] ELSE server

LastOp(op, r, api, rc) ==
    [op |-> op, r |-> r, api |-> api, rc |-> rc, before |-> handle,
     served |-> server]

InitHandle ==
    /\ NoCall
    /\ NoMapClassUse
    /\ calls = <<>>
    /\ stack = <<>>
    /\ handle = NoHandle
    /\ server = InitServer
    /\ block = "out"
    /\ lastop = NoLast

\* handle = Handle(name)
NewHandle ==
    \E name \in HandleNames, rc \in {Ok, STAFNotRunning} :
        LET r == Handle_init(name, rc) IN
        /\ handle = NoHandle
        /\ handle' = IF r.ok THEN r.val ELSE handle
        /\ server' = IF r.ok /\ name.t = "str"
                     THEN [server EXCEPT !.handles = @ \cup {NewNumber}]
                     ELSE server
        /\ lastop' = LastOp("Handle", IF r.ok THEN Return(PyNone) ELSE r,
                            name.t = "str", rc)
        /\ UNCHANGED <<block, callVars, mapClassVars, calls, stack>>

\* handle.unregister()
Unregister ==
    /\ handle.made
    /\ \E rc \in Answers(handle.handle) :
           LET u == Handle_unregister(handle, rc) IN
           /\ handle' = u.self
           /\ server' = IF u.api THEN UnRegister(handle.handle, rc) ELSE server
           /\ lastop' = LastOp("unregister", u.r, u.api, rc)
    /\ UNCHANGED <<block, callVars, mapClassVars, calls, stack>>

\* handle.submit('local', 'ping', 'ping')
Submit ==
    /\ handle.made
    /\ \E rc \in Answers(handle.handle) :
           lastop' = LastOp("submit",
                            IF rc # Ok THEN ResultError(rc)
                            ELSE unmarshall(<<"P", "O", "N", "G">>,
                                            UNMARSHALL_RECURSIVE),
                            TRUE, rc)
    /\ UNCHANGED <<handle, server, block, callVars, mapClassVars, calls, stack>>

\* handle.handle_num(), handle.is_static(), handle.is_registered()
Query ==
    /\ handle.made
    /\ \E op \in {"handle_num", "is_static", "is_registered"} :
           lastop' = LastOp(op,
                            Return(CASE op = "handle_num" -> handle.handle
                                     [] op = "is_static" -> handle.static
                                     [] op = "is_registered" -> handle.registered),
                            FALSE, Ok)
    /\ UNCHANGED <<handle, server, block, callVars, mapClassVars, calls, stack>>

\* with handle: the body is entered
WithEnter ==
    /\ handle.made
    /\ block = "out"
    /\ block' = "body"
    /\ lastop' = LastOp("enter", Return(PyNone), FALSE, Ok)
    /\ UNCHANGED <<handle, server, callVars, mapClassVars, calls, stack>>

\* the body of the with block ends, with an exception or without one:
\* __exit__ calls unregister and returns False, so the exception of the
\* body goes on unless unregister has raised one of its own
WithExit ==
    /\ block = "body"
    /\ \E raised \in BOOLEAN, rc \in Answers(handle.handle) :
           LET u == Handle_unregister(handle, rc) IN
           /\ handle' = u.self
           /\ server' = IF u.api THEN UnRegister(handle.handle, rc) ELSE server
           /\ lastop' = [LastOp("exit",
                                IF ~u.r.ok THEN u.r
                                ELSE IF raised THEN Raise("ValueError", "body")
                                ELSE Return(PyNone),
                                u.api, rc)
                         EXCEPT !.op = IF raised THEN "exit raising" ELSE "exit"]
    /\ block' = "out"
    /\ UNCHANGED <<callVars, mapClassVars, calls, stack>>

\* the STAF server restarts: its handles are gone
Restart ==
    /\ server.handles # {}
    /\ server' = [server EXCEPT !.handles = {}]
    /\ lastop' = LastOp("restart", Return(PyNone), FALSE, Ok)
    /\ UNCHANGED <<handle, block, callVars, mapClassVars, calls, stack>>

NextHandle ==
    \/ NewHandle
    \/ Unregister
    \/ Submit
    \/ Query
    \/ WithEnter
    \/ WithExit
    \/ Restart

SpecHandle == InitHandle /\ [][NextHandle]_vars

(***************************************************************************)
(* Properties                                                              *)
(***************************************************************************)
Called(r) == r # Pending

DecodeError(r) == ~r.ok /\ r.exc = STAFUnmarshallError

Parsing == mode # UNMARSHALL_NONE

\* the map class instance a record input with f fields and f values is to
\* decode to: field i of the definition holds value i of the payload
ExpectedRecord(f) ==
    LET keys == [i \in 1..f |-> descriptor(i).v[K_key]]
        names == [k \in {keys[i] : i \in 1..f} |->
                     LET i == CHOOSE j \in 1..f : keys[j] = k IN
                     <<descriptor(i).v[K_display_name],
                       IF K_display_short_name \in DOMAIN descriptor(i).v
                       THEN descriptor(i).v[K_display_short_name] ELSE PyNone>>]
        mc == MapClass_init(ClassC, keys, names)
    IN  [mc EXCEPT !.v = [k \in DOMAIN mc.v |->
                             FieldValues(f)[CHOOSE j \in 1..f : keys[j] = k]]]

\* a record input whose class is declared and whose payload holds one value
\* per declared field
GoodRecord ==
    /\ shape.form = "record"
    /\ shape.class_name = ClassC
    /\ shape.values = shape.fields

\* C1: unmarshall wraps unmarshall_force: it returns what unmarshall_force
\* returns when that succeeds, returns data itself, unchanged, when
\* unmarshall_force raises STAFUnmarshallError, and returns nothing else.
C1_LenientWrapsStrict ==
    (Called(result) /\ Called(forced)) =>
        /\ forced.ok => result = forced
        /\ DecodeError(forced) => result = Return(PyStr(data))
        /\ result.ok => result = forced \/ result = Return(PyStr(data))

\* a list whose first elements decode before the count mismatch is found:
\* unmarshall_force raised STAFUnmarshallError and unmarshall returned data
C1_Witness ==
    /\ shape.form = "list"
    /\ shape.count > Len(shape.elems)
    /\ Len(shape.elems) > 0
    /\ Parsing
    /\ DecodeError(forced)
    /\ result = Return(PyStr(data))

\* C2: unmarshall never raises: for every input and mode it returns a value.
C2_UnmarshallNeverRaises == Called(result) => result.ok

\* C3: with a mode other than UNMARSHALL_NONE unmarshall_force returns a
\* value or raises STAFUnmarshallError, and no other exception.
C3_ForceRaisesOnlyUnmarshallError ==
    (Called(forced) /\ Parsing) => forced.ok \/ DecodeError(forced)

\* C4: for data that does not start with the marker, unmarshall returns data
\* unchanged in every mode and unmarshall_force, with a mode other than
\* UNMARSHALL_NONE, raises the missing-marker STAFUnmarshallError.
C4_NoMarker ==
    ~(Len(data) >= Len(marker) /\ SubSeq(data, 1, Len(marker)) = marker) =>
        /\ Called(result) => result = Return(PyStr(data))
        /\ (Called(forced) /\ Parsing) =>
               forced = Raise(STAFUnmarshallError,
                              "missing marshalled data marker")

\* the proper prefix @SDT of the marker, after both calls
C4_Witness ==
    /\ data = <<"@", "S", "D", "T">>
    /\ mode = UNMARSHALL_RECURSIVE
    /\ result = Return(PyStr(data))
    /\ DecodeError(forced)

\* C5: with UNMARSHALL_NONE both unmarshall and unmarshall_force return data
\* verbatim, whatever data is.
C5_ModeNone ==
    mode = UNMARSHALL_NONE =>
        /\ Called(result) => result = Return(PyStr(data))
        /\ Called(forced) => forced = Return(PyStr(data))

\* a marked input that cannot be unmarshalled, returned verbatim by both
C5_Witness ==
    /\ mode = UNMARSHALL_NONE
    /\ shape.form = "truncated"
    /\ startswith(data, marker)
    /\ result = Return(PyStr(data))
    /\ forced = Return(PyStr(data))

\* C6: @SDT/$0:0: is None; @SDT/$S:<n>:<c> with n characters c that do not
\* form marshalled data is the string c; a None object with a non-empty
\* payload, a missing type indicator and an indicator other than 0 and S
\* raise STAFUnmarshallError for a bad scalar or none object.
C6_Scalar ==
    (Called(forced) /\ Parsing) =>
        /\ shape.form = "scalar" =>
               CASE shape.typ = <<"0">> ->
                        IF shape.content = <<>> THEN forced = Return(PyNone)
                        ELSE forced = Raise(STAFUnmarshallError,
                                            "bad format for none object")
                 [] shape.typ = <<"S">> -> forced = Return(PyStr(shape.content))
                 [] OTHER -> forced = Raise(STAFUnmarshallError,
                                            "bad format for scalar object")
        /\ data = marker \o <<"$">> =>
               forced = Raise(STAFUnmarshallError, "bad format for scalar object")

\* a None object with the payload a
C6_Witness ==
    /\ shape.form = "scalar"
    /\ shape.typ = <<"0">>
    /\ shape.content = <<"a">>
    /\ Parsing
    /\ DecodeError(forced)

\* the part of C7 about strings that hold values without map class instances
C7_PlainNesting ==
    (Called(forced) /\ Parsing) =>
        /\ shape.form = "nested" =>
               forced = Return(IF mode = UNMARSHALL_RECURSIVE THEN shape.inner
                               ELSE PyStr(marshall(Wrap(shape.k - 1, shape.inner))))
        /\ (shape.form = "list" /\ shape.count = Len(shape.elems)) =>
               /\ forced.ok
               /\ \A i \in DOMAIN shape.elems :
                      shape.elems[i].t = "enc" =>
                          forced.val.v[i] =
                              IF mode = UNMARSHALL_RECURSIVE THEN shape.elems[i].v
                              ELSE PyStr(marshall(shape.elems[i].v))

\* C7: a string scalar whose content is marshalled data, nested k >= 1
\* levels, is fully unwrapped with UNMARSHALL_RECURSIVE and unwrapped one
\* level, the content returned as a string, with UNMARSHALL_NON_RECURSIVE;
\* likewise for string elements of lists.
C7_RecursionModes ==
    /\ C7_PlainNesting
    /\ (Called(forced) /\ Parsing /\ GoodRecord /\ shape.holder = "str") =>
           forced = Return(IF mode = UNMARSHALL_RECURSIVE
                           THEN ExpectedRecord(shape.fields)
                           ELSE PyStr(RecordInput(shape.fields, shape.class_name,
                                                  shape.values, "root")))

\* the map that the pairs, read in order, build: a later pair replaces an
\* earlier one with the same key
LastWins(pairs, m) ==
    [k \in {PyStr(pairs[i][1]) : i \in DOMAIN pairs} |->
        LET last == CHOOSE i \in DOMAIN pairs :
                        /\ pairs[i][1] = k.v
                        /\ \A j \in DOMAIN pairs : pairs[j][1] = k.v => j <= i
        IN  decoded(pairs[last][2], m)]

\* the part of C8 about maps whose values hold no map class instances
C8_PlainMap ==
    (Called(forced) /\ Parsing /\ shape.form = "map") =>
        IF shape.tail = <<>>
        THEN forced = Return(PyDict(LastWins(shape.pairs, mode)))
        ELSE DecodeError(forced)

\* C8: a map payload is a run of (key, value) pairs read until nothing is
\* left; the result maps each key to its decoded value, the last occurrence
\* of a key wins, an empty payload is the empty map, and a key without a
\* value or a value without a key fails.
C8_MapDecoding ==
    /\ C8_PlainMap
    /\ (Called(forced) /\ Parsing /\ GoodRecord /\ shape.holder = "map") =>
           forced = Return(PyDict(PyStr(<<"k">>) :> ExpectedRecord(shape.fields)))

\* the part of C9 about lists whose elements hold no map class instances
C9_PlainList ==
    (Called(forced) /\ Parsing /\ shape.form = "list") =>
        IF shape.count = Len(shape.elems)
        THEN forced = Return(PyList([i \in DOMAIN shape.elems |->
                                        decoded(shape.elems[i], mode)]))
        ELSE DecodeError(forced)

\* C9: a list payload <count><content> decodes to the list of the <count>
\* values of the content, in order, and decoding fails with
\* STAFUnmarshallError when the content holds more or fewer values.
C9_ListDecoding ==
    /\ C9_PlainList
    /\ (Called(forced) /\ Parsing /\ GoodRecord /\ shape.holder = "list") =>
           forced = Return(PyList(<<ExpectedRecord(shape.fields)>>))

\* C10: for a map class instance of a declared class the i-th value of the
\* payload becomes the value of the i-th key of the definition, the result
\* holds one value per declared key, and decoding fails when the payload
\* holds fewer values than keys or has characters left over.
C10_RecordDecoding ==
    (Called(forced) /\ Parsing /\ shape.form = "record"
         /\ shape.class_name = ClassC /\ shape.holder = "root") =>
        IF shape.values = shape.fields
        THEN forced = Return(ExpectedRecord(shape.fields))
        ELSE DecodeError(forced)

\* the keys of the first f field descriptors, in the order of the descriptor
\* list
DescriptorKeys(f) == [i \in 1..f |-> descriptor(i).v[K_key]]

\* the part of C11 about the registry: the MapClassDefinition that
\* ContextUnmarshaller builds from the context map of the input has the keys
\* of the descriptor list in wire order and the display names of the
\* descriptors, None for an absent short name
C11_DefinitionOrder ==
    shape.form \in {"record", "context"} =>
        LET f == shape.fields
            built == ContextUnmarshaller_classes(
                         ContextMap(f).v[K_map_class_map], <<PyStr(ClassC)>>,
                         EmptyDict)
        IN  /\ built.ok
            /\ built.val[PyStr(ClassC)].keys = DescriptorKeys(f)
            /\ \A i \in 1..f :
                   /\ MapClassDefinition_display_name(
                          built.val[PyStr(ClassC)], DescriptorKeys(f)[i])
                          = Return(descriptor(i).v[K_display_name])
                   /\ MapClassDefinition_display_short_name(
                          built.val[PyStr(ClassC)], DescriptorKeys(f)[i])
                          = Return(IF i % 2 = 1
                                   THEN descriptor(i).v[K_display_short_name]
                                   ELSE PyNone)

\* C11: keys() of a decoded map class instance are the keys of the field
\* descriptor list of its class, in the order of that list on the wire, and
\* the display names and short names of each field are those of its
\* descriptor, the short name None when the descriptor has none.
C11_FieldOrder ==
    (Called(forced) /\ Parsing /\ GoodRecord /\ shape.holder = "root") =>
        /\ forced.ok
        /\ forced.val.t = "MapClass"
        /\ MapClass_keys(forced.val) = DescriptorKeys(shape.fields)
        /\ \A i \in 1..shape.fields :
               /\ MapClass_display_name(forced.val, DescriptorKeys(shape.fields)[i])
                      = Return(descriptor(i).v[K_display_name])
               /\ MapClass_display_short_name(forced.val,
                                              DescriptorKeys(shape.fields)[i])
                      = Return(IF i % 2 = 1
                               THEN descriptor(i).v[K_display_short_name]
                               ELSE PyNone)

\* a map class instance whose class no definition in force declares: the
\* context of the input declares only ClassC, or no context encloses it
Undeclared ==
    \/ shape.form = "record" /\ shape.class_name # ClassC
    \/ shape.form = "bare"

MissingDefinition == Raise(STAFUnmarshallError, "missing map class definition")

\* C12: a map class instance whose class has no definition in the context in
\* force, or that no context encloses, makes unmarshall_force raise the
\* missing-definition STAFUnmarshallError and unmarshall return data as it
\* is; met inside a string that is unmarshalled recursively, it leaves that
\* string as it is.  No value is made up for it.
C12_MissingSchema ==
    (Parsing /\ Undeclared) =>
        IF shape.holder = "str"
        THEN Called(forced) =>
                 forced = Return(PyStr(RecordInput(shape.fields, shape.class_name,
                                                   shape.values, "root")))
        ELSE /\ Called(forced) => forced = MissingDefinition
             /\ Called(result) => result = Return(PyStr(data))

\* a map class instance outside every context, after both calls
C12_Witness ==
    /\ shape.form = "bare"
    /\ shape.holder = "list"
    /\ mode = UNMARSHALL_RECURSIVE
    /\ forced = MissingDefinition
    /\ result = Return(PyStr(data))

\* the set of keys of a definition
FieldSet(d) == {d.keys[i] : i \in DOMAIN d.keys}

\* the last call was op and it raised
Raised(op) == ret.op = op /\ ~ret.r.ok

Updated(before, as_dict) ==
    [k \in DOMAIN before.v |-> IF k \in DOMAIN as_dict THEN as_dict[k] ELSE before.v[k]]

\* C14: setdefault and update with a key outside the definition raise
\* KeyError and change no value; update with keys of the definition only,
\* also through map_class(initial values), sets exactly those keys, leaves
\* the other items as they were (None in a new instance) and returns.
C14_SetdefaultUpdate ==
    /\ (instance # NoMapClass /\ ret.op = "setdefault"
            /\ ret.args[1] \notin FieldSet(bound)) =>
           ret.r = Raise("KeyError", "key") /\ instance = ret.before
    /\ (instance # NoMapClass /\ ret.op = "update") =>
           IF DOMAIN ret.args[1] \subseteq FieldSet(bound)
           THEN ret.r.ok /\ instance.v = Updated(ret.before, ret.args[1])
           ELSE ret.r = Raise("KeyError", "key") /\ instance = ret.before
    /\ (ret.op = "map_class" /\ DOMAIN ret.args[1] \subseteq FieldSet(mapdef)) =>
           /\ ret.r.ok
           /\ instance.v = Updated(MapClass_init(mapdef.name, mapdef.keys,
                                                 mapdef.names), ret.args[1])

\* the part of C14 that the code meets: update with a key outside the
\* definition raises KeyError, and setdefault and update change no value
\* when they raise
C14_FailedUpdate ==
    (instance # NoMapClass /\ ret.op \in {"setdefault", "update"}) =>
        /\ ~ret.r.ok => instance = ret.before
        /\ (ret.op = "update" /\ ~(DOMAIN ret.args[1] \subseteq FieldSet(bound))) =>
               ret.r = Raise("KeyError", "key")

\* C15: iterating a MapClass, keys(), values() and items() and their iter
\* variants give the fields in the order of the keys of the definition,
\* whatever the order of the assignments; the i-th value and the i-th item
\* are those of the i-th key; a call on an unchanged instance returns the
\* same sequence again.
C15_IterationOrder ==
    instance # NoMapClass =>
        /\ MapClass_iterkeys(instance) = bound.keys
        /\ MapClass_keys(instance) = bound.keys
        /\ MapClass_itervalues(instance) = MapClass_values(instance)
        /\ MapClass_iteritems(instance) = MapClass_items(instance)
        /\ DOMAIN MapClass_values(instance) = DOMAIN bound.keys
        /\ DOMAIN MapClass_items(instance) = DOMAIN bound.keys
        /\ \A i \in DOMAIN bound.keys :
               /\ MapClass_values(instance)[i] = instance.v[bound.keys[i]]
               /\ MapClass_items(instance)[i]
                      = <<bound.keys[i], instance.v[bound.keys[i]]>>
        /\ ret.op = "keys" => ret.r = Return(bound.keys)
        /\ ret.op = "values" =>
               ret.r = Return([i \in DOMAIN bound.keys |-> instance.v[bound.keys[i]]])
        /\ ret.op = "items" =>
               ret.r = Return([i \in DOMAIN bound.keys |->
                                  <<bound.keys[i], instance.v[bound.keys[i]]>>])

\* values() of an instance with the keys b, a, in that order, to which a was
\* assigned before b
C15_Witness ==
    /\ instance # NoMapClass
    /\ bound.keys = <<KeyB, KeyA>>
    /\ order = <<KeyA, KeyB>>
    /\ ret.op = "values"
    /\ ret.r = Return(<<instance.v[KeyB], instance.v[KeyA]>>)
    /\ instance.v[KeyA] # instance.v[KeyB]

TrailingData == Raise(STAFUnmarshallError, "unexpected trailing data")

LengthExceeds ==
    Raise(STAFUnmarshallError, "specified length exceeds available data")

\* what read_clc_obj is to do with s, on which the pattern matched as m: the
\* object is the first int(m.len) characters after the prefix and the
\* remainder the characters after them, and there is no object when fewer
\* characters follow the prefix
ReadsExactly(s, m) ==
    IF int(m.len) > Len(m.rest)
    THEN read_clc_obj(s) = LengthExceeds
    ELSE /\ read_clc_obj(s).ok
         /\ Len(read_clc_obj(s).obj) = int(m.len)
         /\ read_clc_obj(s).obj \o read_clc_obj(s).rest = m.rest

\* C16: unmarshall_force fails whenever a length prefix states more
\* characters than follow it, and whenever characters are left where a
\* payload must be used up: after the top-level value, in a list after
\* <count> elements, in a map class instance after one value per key, in a
\* context after the root value.  A length-prefixed object that is read is
\* exactly the stated number of characters after the prefix, and the
\* remainder is what follows them.
C16_ExactFraming ==
    /\ \A i \in 0..Len(data) :
           clc_matcher(SliceFrom(data, i)).matched =>
               ReadsExactly(SliceFrom(data, i), clc_matcher(SliceFrom(data, i)))
    /\ (Called(forced) /\ Parsing) =>
           /\ shape.form = "truncated" => DecodeError(forced)
           /\ shape.form = "extended" => forced = TrailingData
           /\ shape.form = "contexttail" => forced = TrailingData
           /\ (shape.form = "list" /\ shape.count < Len(shape.elems)) =>
                  forced = TrailingData
           /\ (shape.form = "list" /\ shape.count > Len(shape.elems)) =>
                  DecodeError(forced)
           /\ (shape.form = "record" /\ shape.class_name = ClassC
                   /\ shape.holder # "str" /\ shape.values # shape.fields) =>
                  ~forced.ok

\* an encoding cut inside the payload of its length prefix
C16_Witness ==
    /\ shape.form = "truncated"
    /\ Parsing
    /\ forced = LengthExceeds

\* C17: display_name(key) and display_short_name(key) of a MapClass return
\* what display_name(key) and display_short_name(key) of the definition it
\* was created from return: the names given to add_item for the key, None
\* for a short name that was not given, and KeyError for a key that the
\* definition does not hold.
C17_DisplayNames ==
    instance # NoMapClass =>
        /\ \A k \in OpKeys :
               /\ MapClass_display_name(instance, k)
                      = MapClassDefinition_display_name(bound, k)
               /\ MapClass_display_short_name(instance, k)
                      = MapClassDefinition_display_short_name(bound, k)
               /\ k \notin FieldSet(bound) =>
                      /\ MapClass_display_name(instance, k) = Raise("KeyError", "key")
                      /\ MapClass_display_short_name(instance, k)
                             = Raise("KeyError", "key")
               /\ k \in FieldSet(bound) =>
                      \E it \in Items :
                          /\ it[1] = k
                          /\ MapClass_display_name(instance, k) = Return(it[2])
                          /\ MapClass_display_short_name(instance, k) = Return(it[3])
        /\ ret.op = "display_name" =>
               ret.r = MapClassDefinition_display_name(bound, ret.args[1])
        /\ ret.op = "display_short_name" =>
               ret.r = MapClassDefinition_display_short_name(bound, ret.args[1])

\* display_short_name of a key that was added without a short name, on an
\* instance that also has a key with a short name
C17_Witness ==
    /\ instance # NoMapClass
    /\ bound.keys = <<KeyB, KeyA>>
    /\ ret.op = "display_short_name"
    /\ ret.args = <<KeyA>>
    /\ ret.r = Return(PyNone)

\* the input has a map class instance and no context
IsBare(d) == \E holder \in BareHolders : d = BareInput(ClassC, 1, holder)

C19_OuterNotVisible ==
    (Called(forced) /\ Parsing /\ shape.form = "nestedcontext"
         /\ ~shape.declares) => forced = MissingDefinition

\* C19: a context inside a context replaces the class definitions for its
\* own root and merges nothing: an instance of a class that only the
\* enclosing context declares raises the missing-definition error, an
\* instance of a class that both declare gets the keys of the inner
\* definition, and no exception other than STAFUnmarshallError is raised.
C19_NestedContext ==
    /\ C19_OuterNotVisible
    /\ (Called(forced) /\ Parsing /\ shape.form = "nestedcontext"
            /\ shape.declares) =>
           IF shape.values = shape.fields
           THEN forced = Return(ExpectedRecord(shape.fields))
           ELSE DecodeError(forced)

CurrentItem == IterableOf(iterator.kind, instance)[iterator.pos]

\* next has just yielded an item of an iterator of one of the kinds
Yielded(kinds) ==
    /\ ret.op = "next"
    /\ ret.r.ok
    /\ iterator.kind \in kinds

\* C21: an iterator obtained from items() or values() yields, for each key
\* it reaches, the value the instance holds for the key when it is reached,
\* so a value assigned after the iterator was created and before the key was
\* visited is the one yielded.
C21_IteratorsSeeChanges ==
    Yielded(ListKinds) => ret.r.val = CurrentItem

\* C21, for the generators of itervalues() and iteritems(): they yield the
\* value the instance holds when the key is reached.
C21_GeneratorsSeeChanges ==
    Yielded(GeneratorKinds) => ret.r.val = CurrentItem

(***************************************************************************)
(* The content of a string, unmarshalled again                             *)
(***************************************************************************)
\* unmarshall_force has been called in UNMARSHALL_RECURSIVE on a string that
\* was marshalled as a string
TextDecoded ==
    /\ shape.form = "textscalar"
    /\ mode = UNMARSHALL_RECURSIVE
    /\ Called(forced)

\* C22: in UNMARSHALL_RECURSIVE a string marshalled as a string never fails
\* to unmarshall because of its content: unmarshall_force returns a value,
\* and when the content is not a complete valid encoding the value is the
\* content, unchanged.
C22_LenientRedecode ==
    TextDecoded =>
        /\ forced.ok
        /\ ~unmarshall_force(shape.content, mode).ok =>
               forced = Return(PyStr(shape.content))

\* C22, for the contents on which unmarshall_force raises
\* STAFUnmarshallError: unmarshall_force returns the content unchanged.
C22_InvalidContentKept ==
    (TextDecoded /\ DecodeError(unmarshall_force(shape.content, mode))) =>
        forced = Return(PyStr(shape.content))

\* C22, for the contents that are complete valid encodings:
\* unmarshall_force returns what the content unmarshalls to.
C22_ValidContentDecoded ==
    (TextDecoded /\ unmarshall_force(shape.content, mode).ok) =>
        forced = unmarshall_force(shape.content, mode)

(***************************************************************************)
(* The scope of a context's class definitions                              *)
(***************************************************************************)
\* C23: the class definitions of a context block are in force for its root
\* only, and the block leaves the definitions of the enclosing structure as
\* they were: a map class instance that follows a context block in a list
\* unmarshalls exactly as it does when None stands in the place of the
\* block, and when its class is declared by the block alone,
\* unmarshall_force raises the missing-definition STAFUnmarshallError.
C23_RegistryScope ==
    (shape.form = "sibling" /\ Parsing /\ Called(forced)) =>
        /\ forced = unmarshall_force(PlainSiblingInput(shape.class_name,
                                                       shape.values,
                                                       shape.outer), mode)
        /\ ~(shape.outer /\ shape.class_name = ClassC) =>
               forced = MissingDefinition

\* an instance of C after a block that declares C, in a list that no context
\* encloses: the definition of the block is not in force for it
C23_Witness ==
    /\ shape.form = "sibling"
    /\ shape.inner
    /\ ~shape.outer
    /\ shape.class_name = ClassC
    /\ shape.values = 2
    /\ mode = UNMARSHALL_RECURSIVE
    /\ forced = MissingDefinition
    /\ result = Return(PyStr(data))

(***************************************************************************)
(* The errors of inputs that are cut off                                   *)
(***************************************************************************)
\* the place of the k-th colon of s
Colon(s, k) ==
    CHOOSE i \in 1..Len(s) :
        /\ s[i] = ":"
        /\ Cardinality({j \in 1..(i - 1) : s[j] = ":"}) = k - 1

\* the input is an encoding that ends right after the marker
CutAfterMarker ==
    shape.form = "truncated" /\ shape.n = Len(marker)

\* the input is an encoding that ends in its first colon-length-colon
\* header: after the first colon or the digits, before the second colon
CutInLengthPrefix ==
    /\ shape.form = "truncated"
    /\ Colon(shape.of, 1) <= shape.n
    /\ shape.n < Colon(shape.of, 2)

IncompleteData == Raise(STAFUnmarshallError, "incomplete marshalled data")

BadLengthPrefixFormat ==
    Raise(STAFUnmarshallError, "bad format for colon-length-colon object")

C25_DepthLimit ==
    (Called(forced) /\ Parsing) => forced.ok \/ DecodeError(forced)

\* C25, the decoder's part: it refuses no depth of nesting itself.  A chain
\* unmarshalls to its value unless the interpreter ran out of stack.
C25_NoLimitInDecoder ==
    (Called(forced) /\ Parsing /\ forced # Exhausted) =>
        forced = Return(decoded(Chain(shape.kind, shape.k), mode))

(***************************************************************************)
(* The life of a Handle                                                    *)
(***************************************************************************)
\* the last operation called unregister: directly or on leaving a with block
Unregistered == lastop.op \in {"unregister", "exit", "exit raising"}

\* unregister raised in the last operation
UnregisterRaised == ~lastop.r.ok /\ lastop.r.exc = "STAFResultError"

\* C26: a Handle is registered once it is constructed.  unregister on a
\* Handle that is not static calls the API and, when the API answers Ok or
\* HandleDoesNotExist, raises nothing and leaves the Handle unregistered, a
\* second time as well; with any other answer the STAFResultError goes to
\* the caller and the Handle is as it was, registered when it was
\* registered.  unregister on a static Handle calls no API and leaves the
\* Handle and the server as they were, the Handle registered.  Leaving a
\* with block calls unregister, and an exception of the body is not
\* suppressed: the with statement ends with an exception.
C26_HandleLifecycle ==
    /\ (lastop.op = "Handle" /\ lastop.r.ok) =>
           handle.made /\ handle.registered
    /\ lastop.op = "is_registered" => lastop.r = Return(handle.registered)
    /\ (Unregistered /\ ~lastop.before.static) =>
           /\ lastop.api
           /\ lastop.rc \in {Ok, HandleDoesNotExist} =>
                  ~UnregisterRaised /\ ~handle.registered
           /\ lastop.rc \notin {Ok, HandleDoesNotExist} =>
                  /\ lastop.r = ResultError(lastop.rc)
                  /\ handle = lastop.before
                  /\ lastop.before.registered => handle.registered
    /\ (Unregistered /\ lastop.before.static) =>
           /\ ~lastop.api
           /\ ~UnregisterRaised
           /\ handle = lastop.before
           /\ handle.registered
           /\ server = lastop.served
    /\ lastop.op = "exit raising" => ~lastop.r.ok
    /\ lastop.op \in {"exit", "exit raising"} => block = "out"

\* a second unregister, which the server answers with HandleDoesNotExist,
\* has raised nothing
C26_Witness ==
    /\ lastop.op = "unregister"
    /\ ~lastop.before.static
    /\ ~lastop.before.registered
    /\ lastop.rc = HandleDoesNotExist
    /\ lastop.r = Return(PyNone)
    /\ ~handle.registered

\* unregister on a registered Handle has raised STAFResultError and the
\* Handle is still registered
C26_ErrorWitness ==
    /\ lastop.op = "unregister"
    /\ lastop.before.registered
    /\ lastop.r = ResultError(STAFNotRunning)
    /\ handle.registered

\* a static Handle after unregister: a request is answered
C26_StaticWitness ==
    /\ lastop.op = "submit"
    /\ lastop.before.static
    /\ lastop.r = Return(PyStr(<<"P", "O", "N", "G">>))

(***************************************************************************)
(* The accepted inputs are prefix-free                                     *)
(***************************************************************************)
\* what is appended to an accepted input: one character, the input itself
Extensions == {<<x>> : x \in ExtraChars} \cup {data}

\* C27: with a mode other than UNMARSHALL_NONE the inputs that
\* unmarshall_force accepts are prefix-free: when it returns a value for
\* data, it raises STAFUnmarshallError for every proper prefix of data and
\* for data followed by anything.
C27_PrefixFree ==
    (Called(forced) /\ Parsing /\ forced.ok) =>
        /\ \A n \in 0..(Len(data) - 1) :
               DecodeError(unmarshall_force(SubSeq(data, 1, n), mode))
        /\ \A x \in Extensions :
               DecodeError(unmarshall_force(data \o x, mode))

\* a context with a list as its root was accepted; what is left when its
\* last character is cut off is not, nor is it with a character appended
C27_Witness ==
    /\ shape.form = "context"
    /\ shape.fields = 2
    /\ shape.root = PyList(<<>>)
    /\ mode = UNMARSHALL_RECURSIVE
    /\ forced = Return(PyList(<<>>))
    /\ unmarshall_force(SubSeq(data, 1, Len(data) - 1), mode)
           = Raise(STAFUnmarshallError, "specified length exceeds available data")
    /\ unmarshall_force(data \o <<"a">>, mode)
           = Raise(STAFUnmarshallError, "unexpected trailing data")

(***************************************************************************)
(* Every sub-parse moves on                                                *)
(***************************************************************************)
\* r is what is left of s when at least one character has been read
StrictSuffix(r, s) ==
    /\ Len(r) < Len(s)
    /\ r = SliceFrom(s, Len(s) - Len(r))

\* the places of data at which a sub-parse may start
Places == 0..Len(data)

\* C28: unmarshalling terminates because every sub-parse that succeeds
\* moves on.  Wherever in data read_clc_obj succeeds, the object and what is
\* left after it are, together, a strict suffix of what it was given, so
\* what is left is a strict suffix and the object, which is what a string
\* is unmarshalled again from, is shorter than the data around it; wherever
\* unmarshall_internal succeeds, what is left is a strict suffix of what it
\* was given.
C28_SubParsesMoveOn ==
    (Called(forced) /\ Parsing) =>
        \A i \in Places :
            /\ read_clc_obj(SliceFrom(data, i)).ok =>
                   StrictSuffix(read_clc_obj(SliceFrom(data, i)).obj
                                    \o read_clc_obj(SliceFrom(data, i)).rest,
                                SliceFrom(data, i))
            /\ unmarshall_internal(SliceFrom(data, i), mode, EmptyDict).ok =>
                   StrictSuffix(
                       unmarshall_internal(SliceFrom(data, i), mode, EmptyDict).rest,
                       SliceFrom(data, i))

\* a map of two pairs was unmarshalled: the value of its first pair is a
\* sub-parse that succeeds and leaves the second pair
C28_Witness ==
    /\ shape.form = "map"
    /\ Len(shape.pairs) = 2
    /\ shape.tail = <<>>
    /\ mode = UNMARSHALL_RECURSIVE
    /\ forced.ok
    /\ \E i \in Places :
           /\ unmarshall_internal(SliceFrom(data, i), mode, EmptyDict).ok
           /\ unmarshall_internal(SliceFrom(data, i), mode, EmptyDict).rest # <<>>
           /\ read_clc_obj(
                  unmarshall_internal(SliceFrom(data, i), mode, EmptyDict).rest).ok

(***************************************************************************)
(* A string is unmarshalled again without the class definitions            *)
(***************************************************************************)
\* C29: a string is unmarshalled again from no class definitions, not from
\* those of the context it is in: a map class instance that was marshalled
\* as a string, or a list with one, inside the context that declares its
\* class is not resolved, and the value is the string as it was
\* marshalled; a key of a map is never unmarshalled.
C29_EmptyRegistryRedecode ==
    (shape.form = "contexttext" /\ Parsing /\ Called(forced)) =>
        forced =
            Return(CASE shape.holder = "root" ->
                            PyStr(RecordText(ClassC, shape.values))
                     [] shape.holder = "list" ->
                            PyList(<<PyStr(RecordText(ClassC, shape.values))>>)
                     [] shape.holder = "key" ->
                            PyDict(PyStr(RecordText(ClassC, shape.values))
                                       :> PyNone)
                     [] shape.holder = "nested" ->
                            PyStr(marshall(PyList(<<Rec(ClassC,
                                                        FieldValues(shape.values))>>))))

\* an instance of C with as many values as the context declares fields for
\* C, marshalled as a string: the root of the context is that string
C29_Witness ==
    /\ shape.form = "contexttext"
    /\ shape.holder = "root"
    /\ shape.fields = 2
    /\ shape.values = 2
    /\ mode = UNMARSHALL_RECURSIVE
    /\ forced = Return(PyStr(RecordText(ClassC, 2)))
    /\ result = forced

(***************************************************************************)
(* The keys of a MapClass whose definition names a key twice               *)
(***************************************************************************)
\* keys() has just returned
KeysReturned == ret.op = "keys" /\ ret.r.ok

\* no element of the list l is in it twice
Once(l) == \A i, j \in DOMAIN l : l[i] = l[j] => i = j

\* C30: keys() of a MapClass lists each key of the instance once, and as
\* many keys as the instance has items, also when add_item was called twice
\* with the same key.
C30_KeysOnce ==
    KeysReturned =>
        /\ Once(ret.r.val)
        /\ Len(ret.r.val) = Cardinality(DOMAIN instance.v)

\* C30, for the definitions in which add_item was called once for each key:
\* keys() lists each key once, and as many keys as the instance has items.
C30_DistinctFields ==
    (KeysReturned /\ Once(bound.keys)) =>
        /\ Once(ret.r.val)
        /\ Len(ret.r.val) = Cardinality(DOMAIN instance.v)

====
